---- MODULE Spec2Model ----
(***************************************************************************)
(* A model of RSS-Dumper: the archive lock (utils/dump_lock.py), the CLI   *)
(* run (rssdumper.py main), the media downloader, the filename sanitizer   *)
(* and the HTML image rewriter (rssarchiver_core.py).                      *)
(*                                                                         *)
(* Text is modelled as a sequence of characters; a character is a string   *)
(* naming it ("a", "/", or "NUL", "LF", ... for the unprintable ones) and  *)
(* Ord gives its code point.                                               *)
(***************************************************************************)
EXTENDS Integers, Sequences, FiniteSets, TLC

(***************************************************************************)
(* Bounds of the model.                                                    *)
(***************************************************************************)
\* longest URL tail (the part after "http://h") given to get_safe_filename
MaxTailLen == 4
\* number of times each process runs main()
MaxRuns == 2
\* largest number of entries in the fetched feed
MaxEntries == 2
\* largest number of media downloads of one entry
MaxMedia == 2
\* the number of pieces a response body is written in
BodyLen == 1
\* largest number of pieces (texts and <img> tags) of an HTML text
MaxPieces == 3
\* largest number of media:content elements of an entry
MaxContent == 2

(***************************************************************************)
(* Characters and strings.                                                 *)
(***************************************************************************)
\* None, where the program has a string or None
NoneVal == <<"None">>

Ascii ==
  << " ", "!", "\"", "#", "$", "%", "&", "'", "(", ")", "*", "+", ",", "-",
     ".", "/", "0", "1", "2", "3", "4", "5", "6", "7", "8", "9", ":", ";",
     "<", "=", ">", "?", "@", "A", "B", "C", "D", "E", "F", "G", "H", "I",
     "J", "K", "L", "M", "N", "O", "P", "Q", "R", "S", "T", "U", "V", "W",
     "X", "Y", "Z", "[", "BACKSLASH", "]", "^", "_", "BACKTICK", "a", "b", "c", "d", "e",
     "f", "g", "h", "i", "j", "k", "l", "m", "n", "o", "p", "q", "r", "s",
     "t", "u", "v", "w", "x", "y", "z", "{", "|", "}", "~" >>

\* ord(c): the code point of a character
Ord(c) ==
  CASE c = "NUL" -> 0
    [] c = "TAB" -> 9
    [] c = "LF" -> 10
    [] c = "CR" -> 13
    [] c = "US" -> 31
    [] c = "DIVSLASH" -> 8725
    [] OTHER -> 31 + (CHOOSE i \in 1..Len(Ascii) : Ascii[i] = c)

RECURSIVE Concat(_)
\* the concatenation of a sequence of strings
Concat(ss) == IF ss = <<>> THEN <<>> ELSE Head(ss) \o Concat(Tail(ss))

\* s[a:b] of Python, 0-based, for 0 <= a and b <= len(s)
Slice(s, a, b) == IF b <= a THEN <<>> ELSE SubSeq(s, a + 1, b)

\* s.startswith(p)
StartsWith(s, p) == Len(s) >= Len(p) /\ SubSeq(s, 1, Len(p)) = p

\* s.endswith(p)
EndsWith(s, p) ==
  Len(s) >= Len(p) /\ SubSeq(s, Len(s) - Len(p) + 1, Len(s)) = p

\* c.lower() for the letters the model uses in upper case
Lower(c) ==
  CASE c = "I" -> "i" [] c = "M" -> "m" [] c = "G" -> "g" [] c = "S" -> "s"
    [] c = "R" -> "r" [] c = "C" -> "c" [] c = "O" -> "o" [] OTHER -> c

LowerStr(s) == [i \in 1..Len(s) |-> Lower(s[i])]

\* the least i >= from with s[i] in cs, or Len(s) + 1 when there is none
FirstOf(s, cs, from) ==
  IF \E i \in from..Len(s) : s[i] \in cs
  THEN CHOOSE i \in from..Len(s) :
         s[i] \in cs /\ \A j \in from..(i - 1) : s[j] \notin cs
  ELSE Len(s) + 1

\* str(n) for n >= 0
RECURSIVE Decimal(_)
Decimal(n) ==
  IF n < 10 THEN <<Ascii[17 + n]>>
  ELSE Decimal(n \div 10) \o <<Ascii[17 + (n % 10)]>>

(***************************************************************************)
(* urllib.parse.urlparse(url).path and pathlib.Path(path).name, as         *)
(* get_safe_filename uses them (rssarchiver_core.py 41-42).                *)
(***************************************************************************)
\* urlsplit removes TAB, CR and LF from the URL before it splits it
UnsafeUrlChars == {"TAB", "CR", "LF"}

HttpScheme == <<"h", "t", "t", "p", ":">>
HttpsScheme == <<"h", "t", "t", "p", "s", ":">>

\* urlparse(url).path: the scheme, the //netloc, the ?query and the
\* #fragment are split off
UrlPath(url) ==
  LET s == SelectSeq(url, LAMBDA c : c \notin UnsafeUrlChars)
      a == IF StartsWith(s, HttpsScheme)
             THEN Slice(s, Len(HttpsScheme), Len(s))
           ELSE IF StartsWith(s, HttpScheme)
             THEN Slice(s, Len(HttpScheme), Len(s))
           ELSE s
      b == IF StartsWith(a, <<"/", "/">>)
             THEN Slice(a, FirstOf(a, {"/", "?", "#"}, 3) - 1, Len(a))
           ELSE a
  IN  Slice(b, 0, FirstOf(b, {"?", "#"}, 1) - 1)

\* the parts of a path: split on "/", the empty and the "." parts dropped
RECURSIVE PathParts(_)
PathParts(p) ==
  IF p = <<>> THEN <<>>
  ELSE LET k == FirstOf(p, {"/"}, 1)
           part == Slice(p, 0, k - 1)
           rest == IF k > Len(p) THEN <<>> ELSE Slice(p, k, Len(p))
       IN  (IF part = <<>> \/ part = <<".">> THEN <<>> ELSE <<part>>)
             \o PathParts(rest)

\* Path(p).name: the last part, or the empty string
PathName(p) ==
  LET parts == PathParts(p)
  IN  IF parts = <<>> THEN <<>> ELSE parts[Len(parts)]

(***************************************************************************)
(* get_safe_filename (rssarchiver_core.py 39-52).                          *)
(***************************************************************************)
HashModulus == 1000000

\* the string-hash seeds (PYTHONHASHSEED) of two processes
HashSeeds == {1, 2}

\* abs(hash(url)): Python salts str hashes per process (PYTHONHASHSEED), so
\* the value is a function of the process's seed and of the string
RECURSIVE PyHash(_, _)
PyHash(seed, s) ==
  IF s = <<>> THEN 7919 * seed
  ELSE (PyHash(seed, Tail(s)) * 31 + Ord(Head(s)) * (seed + 1)) % 16777213

DefaultExt == <<"b", "i", "n">>

\* a mutant: the generated name is used, the filter of line 49 is left out
get_safe_filename_nofilter(seed, url, default_ext) ==
  LET filename == PathName(UrlPath(url))
      named == IF filename = <<>> \/ \A i \in 1..Len(filename) : filename[i] # "."
                 THEN <<"f", "i", "l", "e", "_">>
                        \o Decimal(PyHash(seed, url) % HashModulus)
                        \o <<".">> \o default_ext
               ELSE filename
  IN  [i \in 1..Len(named) |-> IF named[i] = "/" THEN "DIVSLASH" ELSE named[i]]

get_safe_filename(seed, url, default_ext) ==
  LET filename == PathName(UrlPath(url))
      named == IF filename = <<>> \/ \A i \in 1..Len(filename) : filename[i] # "."
                 THEN <<"f", "i", "l", "e", "_">>
                        \o Decimal(PyHash(seed, url) % HashModulus)
                        \o <<".">> \o default_ext
               ELSE filename
      safe == SelectSeq(named,
                LAMBDA c : Ord(c) >= 32 /\ c \notin {"NUL", "CR", "LF"})
  IN  [i \in 1..Len(safe) |-> IF safe[i] = "/" THEN "DIVSLASH" ELSE safe[i]]

(***************************************************************************)
(* State.                                                                  *)
(***************************************************************************)
VARIABLES
  \* the sanitizer called on one URL
  sanUrl, sanExt, sanSeed, sanOut, sanPc,
  \* the archive lock and the runs of main() on one archive root
  hasFcntl,     \* importlib.util.find_spec('fcntl') of the platform
  lockInode,    \* the inode dumping.lock names, 0 when the file is absent
  inodeOwner,   \* per inode: the process holding the fcntl lock on it, or 0
  nextInode,    \* the next inode the file system hands out
  rpc,          \* per process: where its run of main() stands
  rfd,          \* per process: the inode self.lock_file_fd is open on, or 0
  rerr,         \* per process: the exception that ended its run
  rexit,        \* per process: the exit status of its last run
  rruns,        \* per process: the runs started
  rentries,     \* per process: the entries of the feed it parsed
  ritem,        \* per process: the index i of save_items_as_files' loop
  rootFiles,    \* the files of the archive root written so far
  rwrote,       \* per process: the files its current run has written
  \* the media downloader and the loop of save_items_as_files calling it
  pilAvailable, \* PIL_AVAILABLE
  feedUrls,     \* the media URLs the entries of the feed refer to
  feedSub,      \* the category (subfolder) they are downloaded into
  dlSeed,       \* the string-hash seed of the running process
  dlRuns,       \* the runs started on this archive root
  fs,           \* the media files: relative path -> [src, fmt, written]
  dirs,         \* the category directories that exist
  svPc,         \* where save_items_as_files stands
  svItem,       \* the index i of its loop
  svMedia,      \* the media downloads made for entry i
  svFailed,     \* a media download of entry i returned None
  svSurvived,   \* the file of an entry with such a download was written
  svWritten,    \* the entries whose item file is written
  dlPc,         \* where the running download_file call stands
  dlUrl,        \* its file_url
  dlSub,        \* its subfolder
  dlRel,        \* its relative_path
  dlFmt,        \* the format of its content: "raw" as fetched, or "png"
  dlRet,        \* its return value
  dlExc,        \* the exception that leaves it, "none" when it returns
  dlReqs,       \* the GET requests it made
  dlWrites,     \* the files it opened for writing
  dlPrev,       \* what the watched call, if it had the same arguments,
                \* returned
  watched,      \* one earlier call that returned a path: [url, sub, path]
  \* extract_and_download_images_in_html called on one HTML text
  rwHtml,       \* its html
  rwBase,       \* its base_url
  rwPc,         \* where the call stands
  rwMatches,    \* matches: [start, end, g1s, g1e], offsets as in Python
  rwIdx,        \* the match the loop is at, counted from 1
  rwNew,        \* new_html
  rwOffset,     \* offset
  rwDownloaded, \* downloaded
  rwPaths,      \* local_path of each iteration made so far
  rwRepls,      \* replacement of each iteration, the tag itself when it
                \* is not replaced
  \* extract_all_media called on one entry
  emContent,    \* entry.media_content: records [url, type, medium]
  emPc,         \* where the call stands
  emIdx,        \* the media:content element the loop is at, from 1
  emDownloaded, \* downloaded: category -> list of recorded media
  \* the HTML fields of one entry in save_items_as_files
  itIn,         \* item_metadata as extract_full_item_metadata returns it:
                \* [description, content_encoded], Absent for a missing key
  itMeta,       \* item_metadata as it is saved
  itPc,         \* where the iteration stands
  itRewritten,  \* rewritten_html
  \* the item files save_items_as_files writes for the entries of a feed
  nmEntries,    \* feed.entries: records [title, pubDate]
  nmIdx,        \* the index i of the loop
  nmFiles,      \* items/: file name -> the index of the entry it holds
  nmPc,         \* where the call stands
  \* the counters of save_feed_metadata, save_items_as_files and
  \* download_rss_feed over one feed
  ctEntries,    \* feed.entries: records [html, content, enclosures]
  ctPc,         \* where download_rss_feed stands
  ctIdx,        \* the index i of the loop of save_items_as_files
  ctFeedJson,   \* items_count of feed.json, -1 before it is written
  ctTotals,     \* total_media_count
  ctItems,      \* downloaded_media of each item saved so far
  ctStats,      \* what download_rss_feed returns
  \* one GET of the pipeline and what is done with its response
  ftKind,       \* the caller: "feed", "media" or "favicon_page"
  ftWarc,       \* a warc_writer is set (save_warc)
  ftPc,         \* where the caller stands
  ftLog,        \* the outcome of each attempt made for the GET
  ftResult,     \* "ok" when the caller got and used the content,
                \* "failed" when it raised or returned None
  ftRecords,    \* the create_warc_record calls made for the exchange
  ftUsed,       \* the response bytes have been written or parsed
  \* rssuploader: one run of main on a dump directory
  upKeysOk,     \* the keys file has its two lines
  upFeedJson,   \* feed.json is in the dump directory
  upLogoUrl,    \* feed.json has an image url
  upDelete,     \* --delete was given (config.delete_after_upload)
  upMarkedAtStart, \* the uploaded mark was there when main started
  upMarked,     \* the uploaded mark is in the dump directory
  upDirExists,  \* the dump directory exists
  upPc,         \* where the run stands
  upRemote,     \* the operations made on the remote item, in order
  upLocal,      \* what the run wrote into the dump directory
  upLog,        \* the steps of upload_dump that returned, in order
  upFailedIn,   \* the step that raised, "none" without one
  upError,      \* the exception raised, "none" without one
  upRet,        \* what main returned, -1 while it runs
  \* save_feed_metadata: the image of the channel
  fvImage,      \* the image element of the feed: "none", "nourl" (no href
                \* and no url), "http" or "relative" (the form of its URL)
  fvLink,       \* metadata['link'] is not empty
  fvPc,         \* where save_feed_metadata stands
  fvRequests,   \* the requests made for the image, in order
  fvLocalImg,   \* local_img: "none", "image" or "favicon"
  fvFaviconUrl, \* favicon_url of fetch_favicon, "none" while not found
  fvProbe,      \* the index of the common path fetch_favicon tries next
  fvAttempted,  \* fetch_favicon was called
  fvMeta,       \* metadata['image'] of feed.json
  fvImgUrl,     \* img_url: "none", "image" (the URL of the image element)
                \* or "favicon" (the favicon URL)
  \* main() from its call of download_rss_feed to the end of the process
  dfWarc,       \* save_warc
  dfPc,         \* where download_rss_feed stands
  dfFiles,      \* the files written into output_dir, in order
  dfRss,        \* what feed.rss holds: "none" or "response"
  dfWarcFile,   \* warc_file: "none", "open" or "closed"
  dfPatched,    \* the module-level download_file is the lambda of line 1066
  dfRebound,    \* download_file was rebound at some point of the call
  dfEntries,    \* len(feed.entries), -1 before the feed is parsed
  dfItem,       \* the entries save_items_as_files has saved
  dfErr,        \* the exception that left download_rss_feed, or "none"
  dfReturned,   \* download_rss_feed returned its stats
  dfInterrupted, \* SIGINT arrived during the call
  dfExit,       \* the exit status of the process, -1 while it runs
  \* the media of one entry, mechanism by mechanism
  mcEntry,      \* per mechanism: the URL the entry refers to with it, <<>>
                \* when the entry has no such element
  mcContentType, \* the type attribute of its media:content element
  mcPc,         \* the mechanism handled next
  mcHtmlImages, \* html_images of line 910
  mcDownloaded, \* downloaded, then all_media: per category its records
  mcFailed,     \* a download of the entry returned None
  \* _upload_to_ia and _wait_for_item_creation (rssuploader.py)
  iaFiles,      \* the files argument: remote name -> local path
  iaRemote,     \* the item at archive.org: [exists, files]
  iaItem,       \* the Item object of line 405, as get_item returned it
  iaToUpload,   \* files_to_upload (line 406)
  iaUploads,    \* the calls of item.upload: the remote names of each call
  iaPc,         \* position in _upload_to_ia
  iaTries,      \* tries of _wait_for_item_creation
  iaSeen,       \* item.exists of every get_item of _wait_for_item_creation
  iaFailedIn,   \* the call that raised, "none" when none did
  \* update_config and get_config (utils/config.py)
  cfFile,       \* dumpMeta/config.json: [exists, valid, data]
  cfStart,      \* the file before the first call
  cfArg,        \* the argument config of update_config
  cfOld,        \* _config (line 10)
  cfNew,        \* config after line 11
  cfPc,         \* position in update_config, or after it
  cfCalls,      \* calls of update_config that returned
  cfAfterFirst, \* the file after the first call
  cfRead,       \* what get_config returned after the calls
  cfError       \* the exception raised, "none" when none was

sanVars == <<sanUrl, sanExt, sanSeed, sanOut, sanPc>>
lockVars == <<hasFcntl, lockInode, inodeOwner, nextInode, rfd, rerr>>
runVars == <<rpc, rexit, rruns, rentries, ritem, rootFiles, rwrote>>
saveVars == <<svPc, svItem, svMedia, svFailed, svSurvived, svWritten>>
callVars == <<dlPc, dlUrl, dlSub, dlRel, dlFmt, dlRet, dlExc, dlReqs,
              dlWrites, dlPrev>>
dlVars == <<pilAvailable, feedUrls, feedSub, dlSeed, dlRuns, fs, dirs, watched, saveVars,
           callVars>>
rwVars == <<rwHtml, rwBase, rwPc, rwMatches, rwIdx, rwNew, rwOffset,
           rwDownloaded, rwPaths, rwRepls>>
emVars == <<emContent, emPc, emIdx, emDownloaded>>
itVars == <<itIn, itMeta, itPc, itRewritten>>
nmVars == <<nmEntries, nmIdx, nmFiles, nmPc>>
ctVars == <<ctEntries, ctPc, ctIdx, ctFeedJson, ctTotals, ctItems, ctStats>>
ftVars == <<ftKind, ftWarc, ftPc, ftLog, ftResult, ftRecords, ftUsed>>
upVars == <<upKeysOk, upFeedJson, upLogoUrl, upDelete, upMarkedAtStart,
           upMarked, upDirExists, upPc, upRemote, upLocal, upLog,
           upFailedIn, upError, upRet>>
fvVars == <<fvImage, fvLink, fvPc, fvRequests, fvLocalImg, fvFaviconUrl,
           fvProbe, fvAttempted, fvMeta, fvImgUrl>>
dfVars == <<dfWarc, dfPc, dfFiles, dfRss, dfWarcFile, dfPatched, dfRebound,
           dfEntries, dfItem, dfErr, dfReturned, dfInterrupted, dfExit>>
mcVars == <<mcEntry, mcContentType, mcPc, mcHtmlImages, mcDownloaded, mcFailed>>
iaVars == <<iaFiles, iaRemote, iaItem, iaToUpload, iaUploads, iaPc, iaTries, iaSeen, iaFailedIn>>
cfVars == <<cfFile, cfStart, cfArg, cfOld, cfNew, cfPc, cfCalls, cfAfterFirst, cfRead, cfError>>
vars == <<sanVars, lockVars, runVars, dlVars, rwVars, emVars, itVars, nmVars, ctVars, ftVars, upVars, fvVars, dfVars, mcVars, iaVars, cfVars>>
\* the state a specification of one part leaves alone
notSanVars == <<lockVars, runVars, dlVars, rwVars, emVars, itVars, nmVars, ctVars, ftVars, upVars, fvVars, dfVars, mcVars, iaVars, cfVars>>
notRunVars == <<sanVars, dlVars, rwVars, emVars, itVars, nmVars, ctVars, ftVars, upVars, fvVars, dfVars, mcVars, iaVars, cfVars>>
notDlVars == <<sanVars, lockVars, runVars, rwVars, emVars, itVars, nmVars, ctVars, ftVars, upVars, fvVars, dfVars, mcVars, iaVars, cfVars>>
notRwVars == <<sanVars, lockVars, runVars, dlVars, emVars, itVars, nmVars, ctVars, ftVars, upVars, fvVars, dfVars, mcVars, iaVars, cfVars>>
notEmVars == <<sanVars, lockVars, runVars, dlVars, rwVars, itVars, nmVars, ctVars, ftVars, upVars, fvVars, dfVars, mcVars, iaVars, cfVars>>
notItVars == <<sanVars, lockVars, runVars, dlVars, rwVars, emVars, nmVars, ctVars, ftVars, upVars, fvVars, dfVars, mcVars, iaVars, cfVars>>
notNmVars == <<sanVars, lockVars, runVars, dlVars, rwVars, emVars, itVars, ctVars, ftVars, upVars, fvVars, dfVars, mcVars, iaVars, cfVars>>
notCtVars == <<sanVars, lockVars, runVars, dlVars, rwVars, emVars, itVars, nmVars, ftVars, upVars, fvVars, dfVars, mcVars, iaVars, cfVars>>
notFtVars == <<sanVars, lockVars, runVars, dlVars, rwVars, emVars, itVars, nmVars, ctVars, upVars, fvVars, dfVars, mcVars, iaVars, cfVars>>
notUpVars == <<sanVars, lockVars, runVars, dlVars, rwVars, emVars, itVars, nmVars, ctVars, ftVars, fvVars, dfVars, mcVars, iaVars, cfVars>>
notFvVars == <<sanVars, lockVars, runVars, dlVars, rwVars, emVars, itVars, nmVars, ctVars, ftVars, upVars, dfVars, mcVars, iaVars, cfVars>>
notDfVars == <<sanVars, lockVars, runVars, dlVars, rwVars, emVars, itVars, nmVars, ctVars, ftVars, upVars, fvVars, mcVars, iaVars, cfVars>>
notMcVars == <<sanVars, lockVars, runVars, dlVars, rwVars, emVars, itVars, nmVars, ctVars, ftVars, upVars, fvVars, dfVars, iaVars, cfVars>>
notIaVars == <<sanVars, lockVars, runVars, dlVars, rwVars, emVars, itVars, nmVars, ctVars, ftVars, upVars, fvVars, dfVars, mcVars, cfVars>>
notCfVars == <<sanVars, lockVars, runVars, dlVars, rwVars, emVars, itVars, nmVars, ctVars, ftVars, upVars, fvVars, dfVars, mcVars, iaVars>>

(***************************************************************************)
(* Each specification below runs one part of the program; the state of the *)
(* other parts then stays as these predicates fix it.                      *)
(***************************************************************************)
SanIdle ==
  /\ sanUrl = <<>>
  /\ sanExt = <<>>
  /\ sanSeed = 1
  /\ sanOut = NoneVal
  /\ sanPc = "idle"

\* the two processes that run main() on the same archive root
Procs == {1, 2}
\* every acquisition of the lock creates at most one inode
MaxInodes == Cardinality(Procs) * MaxRuns

RunIdle ==
  /\ hasFcntl = FALSE
  /\ lockInode = 0
  /\ inodeOwner = [i \in 1..MaxInodes |-> 0]
  /\ nextInode = 1
  /\ rpc = [p \in Procs |-> "idle"]
  /\ rfd = [p \in Procs |-> 0]
  /\ rerr = [p \in Procs |-> "none"]
  /\ rexit = [p \in Procs |-> "none"]
  /\ rruns = [p \in Procs |-> 0]
  /\ rentries = [p \in Procs |-> 0]
  /\ ritem = [p \in Procs |-> 0]
  /\ rootFiles = {}
  /\ rwrote = [p \in Procs |-> {}]

\* no call is watched
NoWatch == [url |-> <<>>, sub |-> <<>>, path |-> NoneVal]

\* the mapping with nothing in it
EmptyMap == [x \in {} |-> x]

DlIdle ==
  /\ pilAvailable = FALSE
  /\ feedUrls = {}
  /\ feedSub = <<>>
  /\ dlSeed = 1
  /\ dlRuns = 0
  /\ fs = EmptyMap
  /\ dirs = {}
  /\ watched = NoWatch
  /\ svPc = "idle"
  /\ svItem = 0
  /\ svMedia = 0
  /\ svFailed = FALSE
  /\ svSurvived = FALSE
  /\ svWritten = {}
  /\ dlPc = "idle"
  /\ dlUrl = <<>>
  /\ dlSub = <<>>
  /\ dlRel = NoneVal
  /\ dlFmt = "raw"
  /\ dlRet = NoneVal
  /\ dlExc = "none"
  /\ dlReqs = 0
  /\ dlWrites = 0
  /\ dlPrev = NoneVal

RwIdle ==
  /\ rwHtml = <<>>
  /\ rwBase = <<>>
  /\ rwPc = "idle"
  /\ rwMatches = <<>>
  /\ rwIdx = 0
  /\ rwNew = <<>>
  /\ rwOffset = 0
  /\ rwDownloaded = <<>>
  /\ rwPaths = <<>>
  /\ rwRepls = <<>>

\* the five categories of downloaded media (lines 240-246)
Categories == {"images", "audio", "video", "documents", "other"}

EmIdle ==
  /\ emContent = <<>>
  /\ emPc = "idle"
  /\ emIdx = 0
  /\ emDownloaded = [c \in Categories |-> <<>>]

\* a key item_metadata does not have
Absent == <<"Absent">>

ItIdle ==
  /\ itIn = [description |-> Absent, content_encoded |-> Absent]
  /\ itMeta = [description |-> Absent, content_encoded |-> Absent]
  /\ itPc = "idle"
  /\ itRewritten = <<>>

NmIdle ==
  /\ nmEntries = <<>>
  /\ nmIdx = 0
  /\ nmFiles = EmptyMap
  /\ nmPc = "idle"

\* the stats of a run that has not returned
NoStats ==
  [items |-> 0, images |-> 0, total_media |-> 0,
   media_breakdown |-> [c \in Categories |-> 0]]

CtIdle ==
  /\ ctEntries = <<>>
  /\ ctPc = "idle"
  /\ ctIdx = 0
  /\ ctFeedJson = -1
  /\ ctTotals = [c \in Categories |-> 0]
  /\ ctItems = <<>>
  /\ ctStats = NoStats

FtIdle ==
  /\ ftKind = "none"
  /\ ftWarc = FALSE
  /\ ftPc = "idle"
  /\ ftLog = <<>>
  /\ ftResult = "none"
  /\ ftRecords = 0
  /\ ftUsed = FALSE

UpIdle ==
  /\ upKeysOk = TRUE
  /\ upFeedJson = TRUE
  /\ upLogoUrl = FALSE
  /\ upDelete = FALSE
  /\ upMarkedAtStart = FALSE
  /\ upMarked = FALSE
  /\ upDirExists = TRUE
  /\ upPc = "idle"
  /\ upRemote = <<>>
  /\ upLocal = {}
  /\ upLog = <<>>
  /\ upFailedIn = "none"
  /\ upError = "none"
  /\ upRet = -1

\* feed.json without an image record
NoImageRecord ==
  [present |-> FALSE, url |-> "none", local_path |-> "none",
   is_favicon |-> FALSE]

FvIdle ==
  /\ fvImage = "none"
  /\ fvLink = FALSE
  /\ fvPc = "idle"
  /\ fvRequests = <<>>
  /\ fvLocalImg = "none"
  /\ fvFaviconUrl = "none"
  /\ fvProbe = 1
  /\ fvAttempted = FALSE
  /\ fvMeta = NoImageRecord
  /\ fvImgUrl = "none"

DfIdle ==
  /\ dfWarc = FALSE
  /\ dfPc = "idle"
  /\ dfFiles = <<>>
  /\ dfRss = "none"
  /\ dfWarcFile = "none"
  /\ dfPatched = FALSE
  /\ dfRebound = FALSE
  /\ dfEntries = -1
  /\ dfItem = 0
  /\ dfErr = "none"
  /\ dfReturned = FALSE
  /\ dfInterrupted = FALSE
  /\ dfExit = -1

McIdle ==
  /\ mcEntry = <<>>
  /\ mcContentType = <<>>
  /\ mcPc = "idle"
  /\ mcHtmlImages = <<>>
  /\ mcDownloaded = <<>>
  /\ mcFailed = FALSE

IaIdle ==
  /\ iaFiles = EmptyMap
  /\ iaRemote = [exists |-> FALSE, files |-> {}]
  /\ iaItem = [exists |-> FALSE, files |-> {}]
  /\ iaToUpload = EmptyMap
  /\ iaUploads = <<>>
  /\ iaPc = "idle"
  /\ iaTries = 0
  /\ iaSeen = <<>>
  /\ iaFailedIn = "none"

NoFile == [exists |-> FALSE, valid |-> FALSE, data |-> EmptyMap]

CfIdle ==
  /\ cfFile = NoFile
  /\ cfStart = NoFile
  /\ cfArg = EmptyMap
  /\ cfOld = EmptyMap
  /\ cfNew = EmptyMap
  /\ cfPc = "idle"
  /\ cfCalls = 0
  /\ cfAfterFirst = NoFile
  /\ cfRead = EmptyMap
  /\ cfError = "none"

(***************************************************************************)
(* The archive lock (utils/dump_lock.py) and main() (rssdumper.py).        *)
(* Each process runs main() on the same archive root (--output DIR).       *)
(***************************************************************************)
RunInit ==
  /\ SanIdle
  /\ DlIdle
  /\ RwIdle
  /\ EmIdle
  /\ ItIdle
  /\ NmIdle
  /\ CtIdle
  /\ FtIdle
  /\ UpIdle
  /\ FvIdle
  /\ DfIdle
  /\ McIdle
  /\ IaIdle
  /\ CfIdle
  /\ hasFcntl \in BOOLEAN
  /\ lockInode = 0
  /\ inodeOwner = [i \in 1..MaxInodes |-> 0]
  /\ nextInode = 1
  /\ rpc = [p \in Procs |-> "idle"]
  /\ rfd = [p \in Procs |-> 0]
  /\ rerr = [p \in Procs |-> "none"]
  /\ rexit = [p \in Procs |-> "none"]
  /\ rruns = [p \in Procs |-> 0]
  /\ rentries = [p \in Procs |-> 0]
  /\ ritem = [p \in Procs |-> 0]
  /\ rootFiles = {}
  /\ rwrote = [p \in Procs |-> {}]

\* sys.exit(status): the process is gone; the kernel closes its descriptors
\* and with them drops its fcntl locks
Exit(p, status) ==
  /\ rpc' = [rpc EXCEPT ![p] = "exited"]
  /\ rexit' = [rexit EXCEPT ![p] = status]
  /\ rfd' = [rfd EXCEPT ![p] = 0]
  /\ inodeOwner' = [i \in 1..MaxInodes |->
                      IF inodeOwner[i] = p THEN 0 ELSE inodeOwner[i]]

\* main() up to the lock: arguments, output directory, DumpLock(output_dir)
StartRun(p) ==
  /\ rpc[p] \in {"idle", "exited"}
  /\ rruns[p] < MaxRuns
  /\ rruns' = [rruns EXCEPT ![p] = @ + 1]
  /\ rpc' = [rpc EXCEPT ![p] = "lock_enter"]
  /\ rexit' = [rexit EXCEPT ![p] = "none"]
  /\ rerr' = [rerr EXCEPT ![p] = "none"]
  /\ rwrote' = [rwrote EXCEPT ![p] = {}]
  /\ UNCHANGED <<hasFcntl, lockInode, inodeOwner, nextInode, rfd,
                 rentries, ritem, rootFiles, notRunVars>>

\* DumpLock_Basic.__enter__: os.path.exists(self.lock_file)
BasicEnterExists(p) ==
  /\ ~hasFcntl
  /\ rpc[p] = "lock_enter"
  /\ rpc' = [rpc EXCEPT ![p] = IF lockInode # 0 THEN "b_read" ELSE "b_write"]
  /\ UNCHANGED <<lockVars, rexit, rruns, rentries, ritem, rootFiles, rwrote, notRunVars>>

\* DumpLock_Basic.__enter__: open(lock_file, 'r'), print, raise; main()
\* catches the exception and exits with status 1
BasicEnterRaise(p) ==
  /\ rpc[p] = "b_read"
  /\ rerr' = [rerr EXCEPT ![p] = IF lockInode # 0 THEN "AlreadyRunningError"
                                 ELSE "FileNotFoundError"]
  /\ Exit(p, 1)
  /\ UNCHANGED <<hasFcntl, lockInode, nextInode, rruns, rentries, ritem,
                 rootFiles, rwrote, notRunVars>>

\* DumpLock_Basic.__enter__: open(lock_file, 'w') and write the PID
BasicEnterWrite(p) ==
  /\ rpc[p] = "b_write"
  /\ lockInode' = IF lockInode = 0 THEN nextInode ELSE lockInode
  /\ nextInode' = IF lockInode = 0 THEN nextInode + 1 ELSE nextInode
  /\ rpc' = [rpc EXCEPT ![p] = "held"]
  /\ UNCHANGED <<hasFcntl, inodeOwner, rfd, rerr, rexit, rruns, rentries,
                 ritem, rootFiles, rwrote, notRunVars>>

\* DumpLock_Fcntl.__enter__: open(self.lock_file, 'w')
FcntlEnterOpen(p) ==
  /\ hasFcntl
  /\ rpc[p] = "lock_enter"
  /\ lockInode' = IF lockInode = 0 THEN nextInode ELSE lockInode
  /\ nextInode' = IF lockInode = 0 THEN nextInode + 1 ELSE nextInode
  /\ rfd' = [rfd EXCEPT ![p] = lockInode']
  /\ rpc' = [rpc EXCEPT ![p] = "f_lockf"]
  /\ UNCHANGED <<hasFcntl, inodeOwner, rerr, rexit, rruns, rentries, ritem,
                 rootFiles, rwrote, notRunVars>>

\* DumpLock_Fcntl.__enter__: lockf(fd, LOCK_EX | LOCK_NB); on OSError close
\* and raise AlreadyRunningError, which main() turns into exit status 1
FcntlEnterLockf(p) ==
  /\ rpc[p] = "f_lockf"
  /\ IF inodeOwner[rfd[p]] \in {0, p}
     THEN /\ inodeOwner' = [inodeOwner EXCEPT ![rfd[p]] = p]
          /\ rpc' = [rpc EXCEPT ![p] = "held"]
          /\ UNCHANGED <<rfd, rerr, rexit>>
     ELSE /\ rerr' = [rerr EXCEPT ![p] = "AlreadyRunningError"]
          /\ Exit(p, 1)
  /\ UNCHANGED <<hasFcntl, lockInode, nextInode, rruns, rentries, ritem,
                 rootFiles, rwrote, notRunVars>>

\* DumpLock_Fcntl.__exit__: lockf(fd, LOCK_UN), after the body (pass)
FcntlExitUnlock(p) ==
  /\ hasFcntl
  /\ rpc[p] = "held"
  /\ inodeOwner' = [inodeOwner EXCEPT ![rfd[p]] = 0]
  /\ rpc' = [rpc EXCEPT ![p] = "f_close"]
  /\ UNCHANGED <<hasFcntl, lockInode, nextInode, rfd, rerr, rexit, rruns,
                 rentries, ritem, rootFiles, rwrote, notRunVars>>

\* DumpLock_Fcntl.__exit__: self.lock_file_fd.close()
FcntlExitClose(p) ==
  /\ rpc[p] = "f_close"
  /\ rfd' = [rfd EXCEPT ![p] = 0]
  /\ rpc' = [rpc EXCEPT ![p] = "x_exists"]
  /\ UNCHANGED <<hasFcntl, lockInode, inodeOwner, nextInode, rerr, rexit,
                 rruns, rentries, ritem, rootFiles, rwrote, notRunVars>>

\* __exit__ of both locks: if os.path.exists(self.lock_file)
ExitExists(p) ==
  /\ \/ ~hasFcntl /\ rpc[p] = "held"
     \/ rpc[p] = "x_exists"
  /\ rpc' = [rpc EXCEPT ![p] = IF lockInode # 0 THEN "x_remove"
                               ELSE "after_lock"]
  /\ UNCHANGED <<lockVars, rexit, rruns, rentries, ritem, rootFiles, rwrote, notRunVars>>

\* __exit__ of both locks: os.remove(self.lock_file); a file another process
\* removed meanwhile raises FileNotFoundError, which main() catches
ExitRemove(p) ==
  /\ rpc[p] = "x_remove"
  /\ IF lockInode # 0
     THEN /\ lockInode' = 0
          /\ rpc' = [rpc EXCEPT ![p] = "after_lock"]
          /\ UNCHANGED <<inodeOwner, rfd, rerr, rexit>>
     ELSE /\ rerr' = [rerr EXCEPT ![p] = "FileNotFoundError"]
          /\ Exit(p, 1)
          /\ UNCHANGED lockInode
  /\ UNCHANGED <<hasFcntl, nextInode, rruns, rentries, ritem, rootFiles, rwrote,
                 notRunVars>>

\* main(): the Internet Archive check; the user may decline to continue
IaCheck(p) ==
  /\ rpc[p] = "after_lock"
  /\ \E goOn \in BOOLEAN :
       IF goOn
       THEN /\ rpc' = [rpc EXCEPT ![p] = "config"]
            /\ UNCHANGED <<inodeOwner, rfd, rexit>>
       ELSE Exit(p, 0)
  /\ UNCHANGED <<hasFcntl, lockInode, nextInode, rerr, rruns, rentries,
                 ritem, rootFiles, rwrote, notRunVars>>

\* main(): create_session, get_config, update_config
SaveInitialConfig(p) ==
  /\ rpc[p] = "config"
  /\ rootFiles' = rootFiles \cup {"config.json"}
  /\ rwrote' = [rwrote EXCEPT ![p] = @ \cup {"config.json"}]
  /\ rpc' = [rpc EXCEPT ![p] = "fetch"]
  /\ UNCHANGED <<lockVars, rexit, rruns, rentries, ritem, notRunVars>>

\* a mutant: main() ends with status 0 after a failed download
FailureStatusZero(edgecaseOk) == 0

\* the exit status of main() after download_rss_feed raised (rssdumper.py
\* 149-152): show_edge_case_warning returns when EDGECASE_OK is set and
\* sys.exit(1) follows; otherwise it ends the process with os._exit(13)
FailureStatus(edgecaseOk) == IF edgecaseOk THEN 1 ELSE 13

\* download_rss_feed raised e: main() catches it and the process ends
FeedFailure(p, e) ==
  /\ rerr' = [rerr EXCEPT ![p] = e]
  /\ \E edgecaseOk \in BOOLEAN : Exit(p, FailureStatus(edgecaseOk))

\* download_rss_feed: session.get(url) (lines 1021-1027); a request that
\* fails after its retries and a status other than 200 both raise
FetchFeed(p) ==
  /\ rpc[p] = "fetch"
  /\ \E outcome \in {"ok", "HTTPStatusError", "ConnectionError"} :
       IF outcome = "ok"
       THEN /\ rpc' = [rpc EXCEPT ![p] = "write_rss"]
            /\ UNCHANGED <<inodeOwner, rfd, rexit, rerr>>
       ELSE FeedFailure(p, outcome)
  /\ UNCHANGED <<hasFcntl, lockInode, nextInode, rruns, rentries,
                 ritem, rootFiles, rwrote, notRunVars>>

\* download_rss_feed: write response.content to feed.rss
WriteFeedRss(p) ==
  /\ rpc[p] = "write_rss"
  /\ rootFiles' = rootFiles \cup {"feed.rss"}
  /\ rwrote' = [rwrote EXCEPT ![p] = @ \cup {"feed.rss"}]
  /\ rpc' = [rpc EXCEPT ![p] = "parse"]
  /\ UNCHANGED <<lockVars, rexit, rruns, rentries, ritem, notRunVars>>

\* download_rss_feed: feedparser.parse (line 1040); a feed without entries
\* raises "No items found in feed." (lines 1046-1049)
ParseFeed(p) ==
  /\ rpc[p] = "parse"
  /\ \E n \in 0..MaxEntries :
       /\ rentries' = [rentries EXCEPT ![p] = n]
       /\ IF n > 0
          THEN /\ rpc' = [rpc EXCEPT ![p] = "write_meta"]
               /\ UNCHANGED <<inodeOwner, rfd, rexit, rerr>>
          ELSE FeedFailure(p, "NoItems")
  /\ UNCHANGED <<hasFcntl, lockInode, nextInode, rruns, ritem,
                 rootFiles, rwrote, notRunVars>>

\* download_rss_feed: the media directories and save_feed_metadata
WriteFeedJson(p) ==
  /\ rpc[p] = "write_meta"
  /\ rootFiles' = rootFiles \cup {"feed.json"}
  /\ rwrote' = [rwrote EXCEPT ![p] = @ \cup {"feed.json"}]
  /\ ritem' = [ritem EXCEPT ![p] = 0]
  /\ rpc' = [rpc EXCEPT ![p] = "write_items"]
  /\ UNCHANGED <<lockVars, rexit, rruns, rentries, notRunVars>>

\* items/<date> - <title>.json of entry i, for entries of distinct names
ItemFile ==
  <<"items/0.json", "items/1.json", "items/2.json", "items/3.json",
    "items/4.json", "items/5.json">>

\* save_items_as_files: one pass of the loop writes entry i's file
WriteItem(p) ==
  /\ rpc[p] = "write_items"
  /\ ritem[p] < rentries[p]
  /\ rootFiles' = rootFiles \cup {ItemFile[ritem[p] + 1]}
  /\ rwrote' = [rwrote EXCEPT ![p] = @ \cup {ItemFile[ritem[p] + 1]}]
  /\ ritem' = [ritem EXCEPT ![p] = @ + 1]
  /\ UNCHANGED <<lockVars, rpc, rexit, rruns, rentries, notRunVars>>

\* download_rss_feed returns; main() updates the config and returns
FinishRun(p) ==
  /\ rpc[p] = "write_items"
  /\ ritem[p] = rentries[p]
  /\ Exit(p, 0)
  /\ UNCHANGED <<hasFcntl, lockInode, nextInode, rerr, rruns, rentries,
                 ritem, rootFiles, rwrote, notRunVars>>

RunNext ==
  \E p \in Procs :
    \/ StartRun(p)
    \/ BasicEnterExists(p)
    \/ BasicEnterRaise(p)
    \/ BasicEnterWrite(p)
    \/ FcntlEnterOpen(p)
    \/ FcntlEnterLockf(p)
    \/ FcntlExitUnlock(p)
    \/ FcntlExitClose(p)
    \/ ExitExists(p)
    \/ ExitRemove(p)
    \/ IaCheck(p)
    \/ SaveInitialConfig(p)
    \/ FetchFeed(p)
    \/ WriteFeedRss(p)
    \/ ParseFeed(p)
    \/ WriteFeedJson(p)
    \/ WriteItem(p)
    \/ FinishRun(p)

SpecRun == RunInit /\ [][RunNext]_vars

\* the process is inside the with block: __enter__ returned, __exit__ has
\* not begun
HoldsLock(p) == rpc[p] = "held"

\* the process is inside download_rss_feed, from the feed.rss write through
\* the last item file
Writing(p) == rpc[p] \in {"write_rss", "parse", "write_meta", "write_items"}

\* C1: of any two acquisitions of the archive lock on one root, the second
\* fails with AlreadyRunningError while the first holder has not released:
\* at no time do two holders hold the lock, and an acquisition that fails
\* fails with AlreadyRunningError.
LockExclusion ==
  /\ \A p, q \in Procs : HoldsLock(p) /\ HoldsLock(q) => p = q
  /\ \A p \in Procs : rerr[p] \in {"none", "AlreadyRunningError"}

\* C2: a run that is writing into the archive root holds the archive lock,
\* so no two runs write into the same root at once.
WriterHoldsLock ==
  /\ \A p \in Procs : Writing(p) => HoldsLock(p)
  /\ \A p, q \in Procs : Writing(p) /\ Writing(q) => p = q

\* two runs on one root are inside download_rss_feed at once
\* the files of items/
ItemFiles == {ItemFile[i] : i \in 1..Len(ItemFile)}

\* C13: if the feed fetch returns a status other than 2xx, or the feed
\* parses to no entry, download_rss_feed raises, the run writes neither
\* feed.json nor any item file, and main() ends the process with a
\* non-zero exit status.
FailedFeedExitsNonZero ==
  \A p \in Procs :
    rerr[p] \in {"HTTPStatusError", "ConnectionError", "NoItems"} =>
      /\ rpc[p] = "exited"
      /\ rexit[p] \in {1, 13}
      /\ "feed.json" \notin rwrote[p]
      /\ rwrote[p] \cap ItemFiles = {}

\* a run fetched a feed that parsed to no entry: it has written feed.rss
\* and the process has ended
EmptyFeedExited ==
  \E p \in Procs :
    /\ rerr[p] = "NoItems"
    /\ rentries[p] = 0
    /\ rpc[p] = "exited"
    /\ rexit[p] = 1
    /\ rwrote[p] = {"config.json", "feed.rss"}

ConcurrentWriters ==
  \E p, q \in Procs : p # q /\ Writing(p) /\ Writing(q)

(***************************************************************************)
(* The media downloader, download_file (rssarchiver_core.py 97-160), and   *)
(* the loop of save_items_as_files (883-938) that calls it for each media  *)
(* reference of each entry. A run may be cut short by SIGINT               *)
(* (rssdumper.py 64-66) and the archive root be used by a later run.       *)
(***************************************************************************)
Images == <<"i", "m", "a", "g", "e", "s">>
Audio == <<"a", "u", "d", "i", "o">>
DlSubs == {Images, Audio}

HttpPrefix == <<"h", "t", "t", "p", ":", "/", "/">>
HttpsPrefix == <<"h", "t", "t", "p", "s", ":", "/", "/">>

UrlPng == HttpPrefix \o <<"h", "/", "a", ".", "p", "n", "g">>
UrlNoExt == HttpPrefix \o <<"h", "/", "a">>
UrlIco == HttpsPrefix \o <<"h", "/", "f", ".", "I", "C", "O">>
UrlFtp == <<"f", "t", "p", ":", "/", "/", "h", "/", "a", ".", "p", "n", "g">>
UrlRel == <<"a", ".", "p", "n", "g">>
\* the URLs of the model that download_file fetches, and those it skips
FetchedUrls == {UrlPng, UrlNoExt, UrlIco}
SkippedUrls == {UrlFtp, UrlRel, <<>>}

\* a mutant: the scheme test of line 103 is left out
IsHttpAny(url) == TRUE

\* file_url.startswith(('http://', 'https://'))
IsHttp(url) == StartsWith(url, HttpPrefix) \/ StartsWith(url, HttpsPrefix)

\* is_ico and convert_ico and PIL_AVAILABLE (lines 117-118); every caller
\* leaves convert_ico True
ConvertsIco(filename, pil) ==
  EndsWith(LowerStr(filename), <<".", "i", "c", "o">>) /\ pil

\* filename of lines 114-119
TargetName(seed, url, pil) ==
  LET filename == get_safe_filename(seed, url, DefaultExt)
  IN  IF ConvertsIco(filename, pil)
      THEN Slice(filename, 0, Len(filename) - 4) \o <<".", "p", "n", "g">>
      ELSE filename

\* relative_path of lines 124-125
RelativePath(sub, filename) == sub \o <<"/">> \o filename

\* m with key k set to value v
MapPut(m, k, v) ==
  [x \in DOMAIN m \cup {k} |-> IF x = k THEN v ELSE m[x]]

\* a mutant: the handler of line 158 catches request errors only
CaughtRequestsOnly(e) == e \in {"HTTPError", "ConnectionError"}

\* except Exception (line 158): OSError, HTTPError and ConnectionError are
\* all subclasses of Exception
Caught(e) == e \in {"OSError", "HTTPError", "ConnectionError"}

\* an exception e raised inside the try block: the handler logs it and
\* returns None; one it does not catch leaves download_file
Raise(e) ==
  /\ dlPc' = "return"
  /\ dlRet' = NoneVal
  /\ dlExc' = IF Caught(e) THEN "none" ELSE e

DlInit ==
  /\ SanIdle
  /\ RunIdle
  /\ RwIdle
  /\ EmIdle
  /\ ItIdle
  /\ NmIdle
  /\ CtIdle
  /\ FtIdle
  /\ UpIdle
  /\ FvIdle
  /\ DfIdle
  /\ McIdle
  /\ IaIdle
  /\ CfIdle
  /\ pilAvailable \in BOOLEAN
  /\ \E url \in FetchedUrls : feedUrls = {url} \cup SkippedUrls
  /\ feedSub \in DlSubs
  /\ dlSeed \in HashSeeds
  /\ dlRuns = 1
  /\ fs = EmptyMap
  /\ dirs = {}
  /\ watched = NoWatch
  /\ svPc = "items"
  /\ svItem = 0
  /\ svMedia = 0
  /\ svFailed = FALSE
  /\ svSurvived = FALSE
  /\ svWritten = {}
  /\ dlPc = "idle"
  /\ dlUrl = <<>>
  /\ dlSub = <<>>
  /\ dlRel = NoneVal
  /\ dlFmt = "raw"
  /\ dlRet = NoneVal
  /\ dlExc = "none"
  /\ dlReqs = 0
  /\ dlWrites = 0
  /\ dlPrev = NoneVal

\* a later run of the program on the same archive root: a new process, with
\* a string-hash seed of its own
NewRun ==
  /\ svPc \in {"done", "aborted", "dead"}
  /\ dlRuns < MaxRuns
  /\ dlRuns' = dlRuns + 1
  /\ \E seed \in HashSeeds : dlSeed' = seed
  /\ svPc' = "items"
  /\ svItem' = 0
  /\ svMedia' = 0
  /\ svFailed' = FALSE
  /\ svWritten' = {}
  /\ svSurvived' = FALSE
  /\ UNCHANGED <<pilAvailable, feedUrls, feedSub, fs, dirs, watched,
                 callVars, notDlVars>>

\* extract_and_download_images_in_html and extract_all_media for entry i:
\* the next media reference is handed to download_file
CallDownload ==
  /\ svPc = "items"
  /\ svItem < MaxEntries
  /\ svMedia < MaxMedia
  /\ \E url \in feedUrls :
       /\ dlUrl' = url
       /\ dlSub' = feedSub
       /\ dlPrev' = IF watched # NoWatch /\ watched.url = url
                         /\ watched.sub = feedSub
                    THEN watched.path ELSE NoneVal
  /\ svPc' = "call"
  /\ svMedia' = svMedia + 1
  /\ dlPc' = "prepare"
  /\ dlRel' = NoneVal
  /\ dlFmt' = "raw"
  /\ dlRet' = NoneVal
  /\ dlExc' = "none"
  /\ dlReqs' = 0
  /\ dlWrites' = 0
  /\ UNCHANGED <<pilAvailable, feedUrls, feedSub, dlSeed, dlRuns, fs, dirs, watched, svItem,
                 svFailed, svSurvived, svWritten, notDlVars>>

\* download_file, lines 99-131: the URL tests, mkdir, the target path and
\* the existence check
DlPrepare ==
  /\ dlPc = "prepare"
  /\ IF dlUrl = <<>> \/ ~IsHttp(dlUrl)
     THEN /\ dlPc' = "return"
          /\ dlRet' = NoneVal
          /\ UNCHANGED <<dirs, dlRel, dlExc>>
     ELSE \E mkdirOk \in BOOLEAN :
            IF ~mkdirOk /\ dlSub \notin dirs
            THEN /\ Raise("OSError")
                 /\ UNCHANGED <<dirs, dlRel>>
            ELSE LET rel == RelativePath(dlSub,
                              TargetName(dlSeed, dlUrl, pilAvailable))
                 IN  /\ dirs' = dirs \cup {dlSub}
                     /\ dlRel' = rel
                     /\ dlExc' = "none"
                     /\ IF rel \in DOMAIN fs
                        THEN dlPc' = "return" /\ dlRet' = rel
                        ELSE dlPc' = "get" /\ dlRet' = NoneVal
  /\ UNCHANGED <<pilAvailable, feedUrls, feedSub, dlSeed, dlRuns, fs, watched, saveVars, dlUrl,
                 dlSub, dlFmt, dlReqs, dlWrites, dlPrev, notDlVars>>

\* download_file, lines 135-139: requests.get and raise_for_status
DlGet ==
  /\ dlPc = "get"
  /\ dlReqs' = dlReqs + 1
  /\ \E outcome \in {"ok", "HTTPError", "ConnectionError"} :
       IF outcome = "ok"
       THEN /\ dlPc' = IF ConvertsIco(
                            get_safe_filename(dlSeed, dlUrl, DefaultExt),
                            pilAvailable)
                       THEN "convert" ELSE "open"
            /\ UNCHANGED <<dlRet, dlExc>>
       ELSE Raise(outcome)
  /\ UNCHANGED <<pilAvailable, feedUrls, feedSub, dlSeed, dlRuns, fs, dirs, watched, saveVars,
                 dlUrl, dlSub, dlRel, dlFmt, dlWrites, dlPrev, notDlVars>>

\* download_file, lines 142-151: the ICO to PNG conversion; a failure is
\* logged and the fetched bytes are kept
DlConvert ==
  /\ dlPc = "convert"
  /\ \E ok \in BOOLEAN : dlFmt' = IF ok THEN "png" ELSE "raw"
  /\ dlPc' = "open"
  /\ UNCHANGED <<pilAvailable, feedUrls, feedSub, dlSeed, dlRuns, fs, dirs, watched, saveVars,
                 dlUrl, dlSub, dlRel, dlRet, dlExc, dlReqs, dlWrites, dlPrev,
                 notDlVars>>

\* download_file, line 153: open(local_path, 'wb') creates the file empty
DlOpen ==
  /\ dlPc = "open"
  /\ \E ok \in BOOLEAN :
       IF ok
       THEN /\ fs' = MapPut(fs, dlRel,
                       [src |-> dlUrl, fmt |-> dlFmt, written |-> 0])
            /\ dlWrites' = dlWrites + 1
            /\ dlPc' = "write"
            /\ UNCHANGED <<dlRet, dlExc>>
       ELSE /\ Raise("OSError")
            /\ UNCHANGED <<fs, dlWrites>>
  /\ UNCHANGED <<pilAvailable, feedUrls, feedSub, dlSeed, dlRuns, dirs, watched, saveVars, dlUrl,
                 dlSub, dlRel, dlFmt, dlReqs, dlPrev, notDlVars>>

\* download_file, lines 154-156: f.write(content); an error (a full disk)
\* leaves what was written so far
DlWrite ==
  /\ dlPc = "write"
  /\ \E n \in 0..BodyLen :
       /\ fs' = [fs EXCEPT ![dlRel].written = n]
       /\ IF n = BodyLen
          THEN dlPc' = "return" /\ dlRet' = dlRel /\ UNCHANGED dlExc
          ELSE Raise("OSError")
  /\ UNCHANGED <<pilAvailable, feedUrls, feedSub, dlSeed, dlRuns, dirs, watched, saveVars, dlUrl,
                 dlSub, dlRel, dlFmt, dlReqs, dlWrites, dlPrev, notDlVars>>

\* download_file returns to its caller, which records the media only when
\* local_path is not None; an exception leaving download_file leaves
\* save_items_as_files too
DlReturn ==
  /\ dlPc = "return"
  /\ dlPc' = "idle"
  /\ svPc' = IF dlExc = "none" THEN "items" ELSE "aborted"
  /\ svFailed' = (svFailed \/ dlRet = NoneVal)
  /\ \/ UNCHANGED watched
     \/ /\ watched = NoWatch
        /\ dlRet # NoneVal
        /\ watched' = [url |-> dlUrl, sub |-> dlSub, path |-> dlRet]
  /\ dlUrl' = <<>>
  /\ dlSub' = <<>>
  /\ dlRel' = NoneVal
  /\ dlFmt' = "raw"
  /\ dlRet' = NoneVal
  /\ dlExc' = "none"
  /\ dlReqs' = 0
  /\ dlWrites' = 0
  /\ dlPrev' = NoneVal
  /\ UNCHANGED <<pilAvailable, feedUrls, feedSub, dlSeed, dlRuns, fs, dirs, svItem, svMedia,
                 svSurvived, svWritten, notDlVars>>

\* save_items_as_files, lines 926-984: entry i's file is written and the
\* loop moves on
SaveItemFile ==
  /\ svPc = "items"
  /\ svItem < MaxEntries
  /\ svWritten' = svWritten \cup {svItem}
  /\ svItem' = svItem + 1
  /\ svMedia' = 0
  /\ svFailed' = FALSE
  /\ svSurvived' = (svSurvived \/ svFailed)
  /\ UNCHANGED <<pilAvailable, feedUrls, feedSub, dlSeed, dlRuns, fs, dirs, watched, svPc,
                 callVars, notDlVars>>

\* save_items_as_files, line 994: the feed has no further entry
SaveItemsReturn ==
  /\ svPc = "items"
  /\ svItem >= 1
  /\ svMedia = 0
  /\ svPc' = "done"
  /\ UNCHANGED <<pilAvailable, feedUrls, feedSub, dlSeed, dlRuns, fs, dirs, watched, svItem,
                 svMedia, svFailed, svSurvived, svWritten, callVars,
                 notDlVars>>

\* SIGINT: signal_handler calls sys.exit(0); SystemExit is no Exception, so
\* no handler stops it, the with block of line 153 closes the file, and the
\* process ends
Interrupt ==
  /\ svPc \in {"items", "call"}
  /\ svPc' = "dead"
  /\ svItem' = 0
  /\ svMedia' = 0
  /\ svFailed' = FALSE
  /\ svWritten' = {}
  /\ dlPc' = "idle"
  /\ dlUrl' = <<>>
  /\ dlSub' = <<>>
  /\ dlRel' = NoneVal
  /\ dlFmt' = "raw"
  /\ dlRet' = NoneVal
  /\ dlExc' = "none"
  /\ dlReqs' = 0
  /\ dlWrites' = 0
  /\ dlPrev' = NoneVal
  /\ UNCHANGED <<pilAvailable, feedUrls, feedSub, dlSeed, dlRuns, fs, dirs, watched, svSurvived,
                 notDlVars>>

DlNext ==
  \/ NewRun
  \/ CallDownload
  \/ DlPrepare
  \/ DlGet
  \/ DlConvert
  \/ DlOpen
  \/ DlWrite
  \/ DlReturn
  \/ SaveItemFile
  \/ SaveItemsReturn
  \/ Interrupt

SpecDownload == DlInit /\ [][DlNext]_vars

\* a file that holds less than the fetched content
Truncated(p) == fs[p].written < BodyLen

\* C3: after a download_file call that succeeded, a second call with the
\* same URL, category and root returns the same relative path, makes no
\* network request and does not write the file again, so exactly one file
\* exists for that URL.
RepeatedDownloadCached ==
  (dlPc = "return" /\ dlPrev # NoneVal) =>
    /\ dlRet = dlPrev
    /\ dlReqs = 0
    /\ dlWrites = 0
    /\ Cardinality({p \in DOMAIN fs : fs[p].src = dlUrl}) = 1

\* C4: an interrupt or a failed write during a media download leaves no
\* zero-byte or truncated file at the target path, so every file the
\* existence check of a later call takes as downloaded holds the complete
\* content.
CachedFilesComplete ==
  /\ dlPc # "write" => \A p \in DOMAIN fs : ~Truncated(p)
  /\ (dlPc = "return" /\ dlRet # NoneVal) => ~Truncated(dlRet)

\* C5: download_file returns a relative path or None for every input and
\* every network or filesystem failure and never raises; after a failed
\* media download save_items_as_files goes on with the remaining media and
\* entries and writes the entry's file.
DownloadNeverRaises ==
  /\ dlExc = "none"
  /\ svPc # "aborted"
  /\ dlPc = "return" => dlRet \in {NoneVal, dlRel}
  /\ svPc = "done" => svWritten = 0..(svItem - 1)

\* the loop has returned after writing the file of an entry one of whose
\* media downloads returned None, and the file of a later entry
FailedDownloadSurvived ==
  /\ svPc = "done"
  /\ svSurvived
  /\ svItem >= 2
  /\ svWritten = 0..(svItem - 1)

\* C6: for a URL that does not start with http:// or https://, download_file
\* returns None, makes no network request and writes no file.
NonHttpSkipped ==
  /\ \A p \in DOMAIN fs : fs[p].src \notin SkippedUrls
  /\ (dlPc # "idle" /\ dlUrl \in SkippedUrls) =>
       /\ dlPc \in {"prepare", "return"}
       /\ dlReqs = 0
       /\ dlWrites = 0
       /\ dlRet = NoneVal

\* download_file is about to return from a call with an ftp:// URL
NonHttpReturned ==
  /\ dlPc = "return"
  /\ dlUrl = UrlFtp
  /\ dlRet = NoneVal
  /\ fs = EmptyMap

(***************************************************************************)
(* The sanitizer applied to every URL of a bounded set.                    *)
(***************************************************************************)
SanChars == {"/", ".", "a", "?", "NUL", "LF", "US"}
SanPrefix == <<"h", "t", "t", "p", ":", "/", "/", "h">>

RECURSIVE SeqsUpTo(_, _)
\* the sequences over S of length at most n
SeqsUpTo(S, n) ==
  IF n = 0 THEN {<<>>}
  ELSE LET shorter == SeqsUpTo(S, n - 1)
       IN  shorter \cup {Append(s, c) : s \in shorter, c \in S}

SanExts == {DefaultExt, <<"a", "/", "LF">>}

SanInit ==
  /\ RunIdle
  /\ DlIdle
  /\ RwIdle
  /\ EmIdle
  /\ ItIdle
  /\ NmIdle
  /\ CtIdle
  /\ FtIdle
  /\ UpIdle
  /\ FvIdle
  /\ DfIdle
  /\ McIdle
  /\ IaIdle
  /\ CfIdle
  /\ sanUrl \in {SanPrefix \o t : t \in SeqsUpTo(SanChars, MaxTailLen)}
  /\ sanExt \in SanExts
  /\ sanSeed \in HashSeeds
  /\ sanOut = NoneVal
  /\ sanPc = "call"

Sanitize ==
  /\ sanPc = "call"
  /\ sanOut' = get_safe_filename(sanSeed, sanUrl, sanExt)
  /\ sanPc' = "done"
  /\ UNCHANGED <<sanUrl, sanExt, sanSeed, notSanVars>>

SanNext == Sanitize

SpecSanitizer == SanInit /\ [][SanNext]_vars

\* C7: for every URL (with or without a query string, with or without an
\* extension in the last path segment, with embedded control characters)
\* get_safe_filename returns a non-empty string with no "/", no NUL, no CR,
\* no LF and no other character whose code point is below 32.
SanitizerOutputSafe ==
  sanPc = "done" =>
    /\ Len(sanOut) > 0
    /\ \A i \in 1..Len(sanOut) :
         /\ sanOut[i] \notin {"/", "NUL", "CR", "LF"}
         /\ Ord(sanOut[i]) >= 32

\* a URL whose last segment holds control characters and whose query holds a
\* "/" has been sanitized
SanitizerWitness ==
  /\ sanPc = "done"
  /\ sanUrl = SanPrefix \o <<"/", "US", ".", "NUL">>
  /\ sanOut = <<".">>

(***************************************************************************)
(* The HTML image rewriter, extract_and_download_images_in_html            *)
(* (rssarchiver_core.py 841-867).                                          *)
(***************************************************************************)
\* the characters \s matches, of those the model writes
IsSpace(c) == c \in {" ", "TAB", "LF", "CR"}

Quotes == {"\"", "'"}

\* the least q >= p with s[q] no space, or Len(s) + 1 when there is none
SkipSpaces(s, p) ==
  IF \E q \in p..Len(s) : ~IsSpace(s[q])
  THEN CHOOSE q \in p..Len(s) :
         ~IsSpace(s[q]) /\ \A r \in p..(q - 1) : IsSpace(s[r])
  ELSE Len(s) + 1

\* the literal lit of the pattern, in lower case, matches s at index p;
\* re.IGNORECASE
LitAt(s, p, lit) ==
  /\ p >= 1
  /\ p + Len(lit) - 1 <= Len(s)
  /\ LowerStr(SubSeq(s, p, p + Len(lit) - 1)) = lit

NoMatch == [ok |-> FALSE, start |-> 0, end |-> 0, g1s |-> 0, g1e |-> 0]

\* src\s*=\s*["']([^"']+)["'][^>]*> tried at index p of s. [^"']+ ends at the
\* next quote and must not be empty; [^>]*> ends at the next ">". The
\* result holds the offsets Python counts: group 1 is s[g1s:g1e] and the
\* match ends before offset end
SrcAt(s, p) ==
  LET eq == SkipSpaces(s, p + 3)
      q1 == SkipSpaces(s, eq + 1)
      q2 == FirstOf(s, Quotes, q1 + 1)
      gt == FirstOf(s, {">"}, q2 + 1)
  IN  IF /\ LitAt(s, p, <<"s", "r", "c">>)
         /\ eq <= Len(s) /\ s[eq] = "="
         /\ q1 <= Len(s) /\ s[q1] \in Quotes
         /\ q2 <= Len(s) /\ q2 > q1 + 1
         /\ gt <= Len(s)
      THEN [ok |-> TRUE, start |-> p - 1, end |-> gt, g1s |-> q1,
            g1e |-> q2 - 1]
      ELSE NoMatch

\* the whole pattern tried at index p of s: <img, one space or more, then
\* the greedy [^>]* gives way from the right, so the match takes the last
\* src before the first ">" from which the rest of the pattern matches
MatchAt(s, p) ==
  IF /\ LitAt(s, p, <<"<", "i", "m", "g">>)
     /\ p + 4 <= Len(s)
     /\ IsSpace(s[p + 4])
  THEN LET lim == FirstOf(s, {">"}, p + 4)
           J == {j \in (p + 5)..(lim - 1) : SrcAt(s, j).ok}
       IN  IF J = {} THEN NoMatch
           ELSE LET j == CHOOSE x \in J : \A y \in J : y <= x
                IN  [SrcAt(s, j) EXCEPT !.start = p - 1]
  ELSE NoMatch

RECURSIVE FindIter(_, _)
\* list(re.finditer(img_pattern, html, re.IGNORECASE)) from index pos on:
\* the leftmost match, then the matches after its end
FindIter(s, pos) ==
  LET p == FirstOf(s, {"<"}, pos)
  IN  IF p > Len(s) THEN <<>>
      ELSE IF MatchAt(s, p).ok
           THEN <<MatchAt(s, p)>> \o FindIter(s, MatchAt(s, p).end + 1)
           ELSE FindIter(s, p + 1)

RECURSIVE Replace(_, _, _)
\* s.replace(old, new) for a non-empty old: every occurrence, from the left
Replace(s, old, new) ==
  IF Len(s) < Len(old) THEN s
  ELSE IF StartsWith(s, old)
       THEN new \o Replace(SubSeq(s, Len(old) + 1, Len(s)), old, new)
       ELSE <<Head(s)>> \o Replace(Tail(s), old, new)

\* the offset after the last "/" of s, 0 when it has none
AfterLastSlash(s) ==
  IF \E i \in 1..Len(s) : s[i] = "/"
  THEN CHOOSE i \in 1..Len(s) :
         s[i] = "/" /\ \A j \in (i + 1)..Len(s) : s[j] # "/"
  ELSE 0

\* urljoin(base, url) for the URLs of the model: one with a scheme is
\* itself, as is any URL joined to an empty base; a relative path without
\* dot segments replaces what follows the last "/" of base
UrlJoin(base, url) ==
  IF base = <<>> \/ IsHttp(url) THEN url
  ELSE Slice(base, 0, AfterLastSlash(base)) \o url

\* what download_image(full_url, images_dir) returns: download_file with
\* subfolder 'images' (line 235); ok says whether mkdir, the request and
\* the write go through
download_image(full_url, ok) ==
  IF ok /\ full_url # <<>> /\ IsHttp(full_url)
  THEN RelativePath(Images, TargetName(dlSeed, full_url, pilAvailable))
  ELSE NoneVal

\* a mutant: the test of line 858 is left out
HasLocalPathAlways(local_path) == TRUE

\* if local_path: (line 858)
HasLocalPath(local_path) == local_path # NoneVal /\ local_path # <<>>

\* text outside any tag
TextPlain ==
  << "x", " " >>

\* text outside any tag that reads like the URL of a tag
TextUrl ==
  << "a", ".", "p", "n", "g" >>

\* <img src="a.png">
TagPlain ==
  << "<", "i", "m", "g", " ", "s", "r", "c", "=", "\"", "a", ".", "p", "n",
     "g", "\"", ">" >>

\* <IMG  SRC = 'http://h/b.png' >: upper case, spaces around =, single
\* quotes, an absolute URL longer than its local path
TagUpper ==
  << "<", "I", "M", "G", " ", " ", "S", "R", "C", " ", "=", " ", "'", "h",
     "t", "t", "p", ":", "/", "/", "h", "/", "b", ".", "p", "n", "g", "'",
     " ", ">" >>

\* <img alt="a.png" src="a.png">
TagAlt ==
  << "<", "i", "m", "g", " ", "a", "l", "t", "=", "\"", "a", ".", "p", "n",
     "g", "\"", " ", "s", "r", "c", "=", "\"", "a", ".", "p", "n", "g",
     "\"", ">" >>

\* <img src="a.png" data-src="b.png">
TagLazy ==
  << "<", "i", "m", "g", " ", "s", "r", "c", "=", "\"", "a", ".", "p", "n",
     "g", "\"", " ", "d", "a", "t", "a", "-", "s", "r", "c", "=", "\"", "b",
     ".", "p", "n", "g", "\"", ">" >>

\* <img src="src">: a relative URL that reads like the attribute name
TagSrcSrc ==
  << "<", "i", "m", "g", " ", "s", "r", "c", "=", "\"", "s", "r", "c", "\"",
     ">" >>

\* <img src="">, which the pattern does not match
TagEmpty ==
  << "<", "i", "m", "g", " ", "s", "r", "c", "=", "\"", "\"", ">" >>

RwPieces ==
  {TextPlain, TextUrl, TagPlain, TagUpper,
   TagAlt, TagLazy, TagSrcSrc, TagEmpty}

\* base_url: the link of the entry, or '' when entry and feed have none
RwBaseUrl ==
  << "h", "t", "t", "p", ":", "/", "/", "h", "/", "p", "/", "q" >>

\* the HTML texts given to the rewriter: up to MaxPieces pieces in a row
RwInputs ==
  {Concat(ps) : ps \in UNION {[1..n -> RwPieces] : n \in 1..MaxPieces}}

RwInit ==
  /\ SanIdle
  /\ RunIdle
  /\ DlIdle
  /\ EmIdle
  /\ ItIdle
  /\ NmIdle
  /\ CtIdle
  /\ FtIdle
  /\ UpIdle
  /\ FvIdle
  /\ DfIdle
  /\ McIdle
  /\ IaIdle
  /\ CfIdle
  /\ rwHtml \in RwInputs \cup {<<>>, NoneVal}
  /\ rwBase \in {RwBaseUrl, <<>>}
  /\ rwPc = "start"
  /\ rwMatches = <<>>
  /\ rwIdx = 0
  /\ rwNew = <<>>
  /\ rwOffset = 0
  /\ rwDownloaded = <<>>
  /\ rwPaths = <<>>
  /\ rwRepls = <<>>

\* lines 843-851: the test of html, finditer and the start of the loop
RwStart ==
  /\ rwPc = "start"
  /\ IF rwHtml = NoneVal \/ rwHtml = <<>>
     THEN /\ rwPc' = "done"
          /\ rwNew' = rwHtml
          /\ UNCHANGED <<rwMatches, rwIdx>>
     ELSE /\ rwPc' = "loop"
          /\ rwMatches' = FindIter(rwHtml, 1)
          /\ rwIdx' = 1
          /\ rwNew' = rwHtml
  /\ rwOffset' = 0
  /\ rwDownloaded' = <<>>
  /\ UNCHANGED <<rwHtml, rwBase, rwPaths, rwRepls, notRwVars>>

\* lines 853-865: one iteration of the loop over the matches
RwMatch ==
  /\ rwPc = "loop"
  /\ rwIdx <= Len(rwMatches)
  /\ \E ok \in BOOLEAN :
       LET match == rwMatches[rwIdx]
           group0 == Slice(rwHtml, match.start, match.end)
           img_url == Slice(rwHtml, match.g1s, match.g1e)
           full_url == UrlJoin(rwBase, img_url)
           local_path == download_image(full_url, ok)
           replacement == Replace(group0, img_url, local_path)
           adjusted_start == match.start + rwOffset
           adjusted_end == match.end + rwOffset
       IN  /\ rwPaths' = Append(rwPaths, local_path)
           /\ IF HasLocalPath(local_path)
              THEN /\ rwNew' = Slice(rwNew, 0, adjusted_start)
                                 \o replacement
                                 \o Slice(rwNew, adjusted_end, Len(rwNew))
                   /\ rwOffset' = rwOffset + Len(replacement) - Len(group0)
                   /\ rwDownloaded' =
                        Append(rwDownloaded, [original_url |-> full_url,
                                              local_path |-> local_path])
                   /\ rwRepls' = Append(rwRepls, replacement)
              ELSE /\ rwRepls' = Append(rwRepls, group0)
                   /\ UNCHANGED <<rwNew, rwOffset, rwDownloaded>>
  /\ rwIdx' = rwIdx + 1
  /\ UNCHANGED <<rwHtml, rwBase, rwPc, rwMatches, notRwVars>>

\* line 867: return new_html, downloaded
RwReturn ==
  /\ rwPc = "loop"
  /\ rwIdx > Len(rwMatches)
  /\ rwPc' = "done"
  /\ UNCHANGED <<rwHtml, rwBase, rwMatches, rwIdx, rwNew, rwOffset,
                 rwDownloaded, rwPaths, rwRepls, notRwVars>>

RwNext ==
  \/ RwStart
  \/ RwMatch
  \/ RwReturn

SpecRewriter == RwInit /\ [][RwNext]_vars

\* the k-th matched <img> tag of the input
RwTag(k) == Slice(rwHtml, rwMatches[k].start, rwMatches[k].end)

\* the src URL the k-th match captured
RwUrl(k) == Slice(rwHtml, rwMatches[k].g1s, rwMatches[k].g1e)

\* the text of the input after the k-th matched tag and before the next
\* one; k = 0 for the text before the first
RwText(k) ==
  Slice(rwHtml,
        IF k = 0 THEN 0 ELSE rwMatches[k].end,
        IF k = Len(rwMatches) THEN Len(rwHtml) ELSE rwMatches[k + 1].start)

\* the input with its k-th matched tag replaced by tags[k], for every k
Assemble(tags) ==
  Concat([i \in 1..(2 * Len(rwMatches) + 1) |->
            IF i % 2 = 1 THEN RwText((i - 1) \div 2) ELSE tags[i \div 2]])

\* the value of the src attribute of a tag: of the first src that follows a
\* space; None when the tag has no such attribute
SrcValue(tag) ==
  LET J == {j \in 2..Len(tag) : IsSpace(tag[j - 1]) /\ SrcAt(tag, j).ok}
  IN  IF J = {} THEN NoneVal
      ELSE LET j == CHOOSE x \in J : \A y \in J : x <= y
           IN  Slice(tag, SrcAt(tag, j).g1s, SrcAt(tag, j).g1e)

RECURSIVE Successes(_)
\* one entry for each of the first k matches whose download returned a
\* path, in the order of the matches
Successes(k) ==
  IF k = 0 THEN <<>>
  ELSE Successes(k - 1) \o
       (IF rwPaths[k] = NoneVal THEN <<>>
        ELSE <<[original_url |-> UrlJoin(rwBase, RwUrl(k)),
                local_path |-> rwPaths[k]]>>)

\* C8: for HTML with several <img> tags whose downloads all succeed, with
\* local paths whose lengths differ from those of the URLs, the rewrite
\* leaves every character outside the matched tags unchanged and in order,
\* and the src value of each tag becomes the local path returned for the
\* URL of that tag.
RewriteSetsEverySrc ==
  (/\ rwPc = "done"
   /\ Len(rwMatches) >= 2
   /\ \A k \in 1..Len(rwMatches) : rwPaths[k] # NoneVal) =>
    /\ rwNew = Assemble(rwRepls)
    /\ \A k \in 1..Len(rwMatches) : SrcValue(rwRepls[k]) = rwPaths[k]

\* C9: within a matched <img> tag whose download succeeds the rewrite
\* replaces only the URL of the src attribute; every other character of the
\* tag, other attributes holding the same string included, is unchanged.
OnlySrcUrlReplaced ==
  rwPc = "done" =>
    \A k \in 1..Len(rwMatches) :
      rwPaths[k] # NoneVal =>
        rwRepls[k] = Slice(rwHtml, rwMatches[k].start, rwMatches[k].g1s)
                       \o rwPaths[k]
                       \o Slice(rwHtml, rwMatches[k].g1e, rwMatches[k].end)

\* C10: an <img> tag whose download returns None stands unchanged in the
\* output and has no entry in the returned list, while the other tags are
\* rewritten; the list has one entry for each image downloaded, in document
\* order. Empty or null HTML is returned unchanged with an empty list.
FailedImageLeftAlone ==
  rwPc = "done" =>
    IF rwHtml = NoneVal \/ rwHtml = <<>>
    THEN rwNew = rwHtml /\ rwDownloaded = <<>>
    ELSE /\ Len(rwPaths) = Len(rwMatches)
         /\ rwNew = Assemble([k \in 1..Len(rwMatches) |->
                       IF rwPaths[k] = NoneVal THEN RwTag(k)
                       ELSE rwRepls[k]])
         /\ \A k \in 1..Len(rwMatches) :
              rwPaths[k] # NoneVal => rwRepls[k] # RwTag(k)
         /\ rwDownloaded = Successes(Len(rwMatches))

\* the rewriter has returned from a text of two tags: the download of the
\* first succeeded and changed the length of the text before the second,
\* whose download failed
FailedImageWitness ==
  /\ rwPc = "done"
  /\ rwHtml = TagUpper \o TextUrl \o TagPlain
  /\ rwBase = RwBaseUrl
  /\ Len(rwPaths) = 2
  /\ rwPaths[1] # NoneVal
  /\ rwPaths[2] = NoneVal
  /\ Len(rwNew) # Len(rwHtml)
  /\ Len(rwDownloaded) = 1
  /\ EndsWith(rwNew, TextUrl \o TagPlain)

(***************************************************************************)
(* The media:content elements of an entry, extract_all_media               *)
(* (rssarchiver_core.py 262-296).                                          *)
(***************************************************************************)
\* sub in s
Contains(s, sub) ==
  \E i \in 0..(Len(s) - Len(sub)) : Slice(s, i, i + Len(sub)) = sub

Video == <<"v", "i", "d", "e", "o">>
Media == <<"m", "e", "d", "i", "a">>
Documents == <<"d", "o", "c", "u", "m", "e", "n", "t", "s">>
\* the word "image", as medium and inside a MIME type
Image == <<"i", "m", "a", "g", "e">>

TypeImage == <<"i", "m", "a", "g", "e", "/", "p", "n", "g">>
TypeAudio == <<"a", "u", "d", "i", "o", "/", "m", "p", "e", "g">>
TypeVideo == <<"v", "i", "d", "e", "o", "/", "m", "p", "4">>

\* the declared type and medium of a media:content element; '' when the
\* attribute is absent
ContentTypes == {<<>>, TypeImage, TypeAudio, TypeVideo}
ContentMediums == {<<>>, Image, Audio, Video}

\* category of lines 270-281
media_category(media_type, media_medium) ==
  IF Contains(media_type, Image) \/ media_medium = Image THEN "images"
  ELSE IF Contains(media_type, Audio) \/ media_medium = Audio THEN "audio"
  ELSE IF Contains(media_type, Video) \/ media_medium = Video THEN "video"
  ELSE "other"

\* subfolder of lines 270-281
media_subfolder(category) ==
  CASE category = "images" -> Images
    [] category = "audio" -> Audio
    [] category = "video" -> Video
    [] category = "documents" -> Documents
    [] OTHER -> Media

\* what download_file(url, output_dir, subfolder) returns; ok says whether
\* mkdir, the request and the write go through
download_result(url, subfolder, ok) ==
  IF ok /\ url # <<>> /\ IsHttp(url)
  THEN RelativePath(subfolder, TargetName(dlSeed, url, pilAvailable))
  ELSE NoneVal

ContentElements ==
  [url : {UrlPng, <<>>}, type : ContentTypes, medium : ContentMediums]

EmInit ==
  /\ SanIdle
  /\ RunIdle
  /\ DlIdle
  /\ RwIdle
  /\ ItIdle
  /\ NmIdle
  /\ CtIdle
  /\ FtIdle
  /\ UpIdle
  /\ FvIdle
  /\ DfIdle
  /\ McIdle
  /\ IaIdle
  /\ CfIdle
  /\ emContent \in UNION {[1..n -> ContentElements] : n \in 0..MaxContent}
  /\ emPc = "content"
  /\ emIdx = 1
  /\ emDownloaded = [c \in Categories |-> <<>>]

\* lines 264-296: one iteration of the loop over entry.media_content
EmContent ==
  /\ emPc = "content"
  /\ emIdx <= Len(emContent)
  /\ \E ok \in BOOLEAN :
       LET media == emContent[emIdx]
           category == media_category(media.type, media.medium)
           local_path == download_result(media.url,
                                         media_subfolder(category), ok)
       IN  IF media.url # <<>> /\ HasLocalPath(local_path)
           THEN emDownloaded' =
                  [emDownloaded EXCEPT ![category] =
                     Append(@, [original_url |-> media.url,
                                local_path |-> local_path,
                                type |-> media.type,
                                medium |-> media.medium])]
           ELSE UNCHANGED emDownloaded
  /\ emIdx' = emIdx + 1
  /\ UNCHANGED <<emContent, emPc, notEmVars>>

\* the loop over entry.media_content has ended
EmContentEnd ==
  /\ emPc = "content"
  /\ emIdx > Len(emContent)
  /\ emPc' = "done"
  /\ UNCHANGED <<emContent, emIdx, emDownloaded, notEmVars>>

EmNext ==
  \/ EmContent
  \/ EmContentEnd

SpecMedia == EmInit /\ [][EmNext]_vars

\* the category named by a medium
MediumBucket(medium) ==
  CASE medium = Image -> "images"
    [] medium = Audio -> "audio"
    [] medium = Video -> "video"

\* C11: every media:content element whose declared medium is image, audio
\* or video is placed in the bucket named by its medium whatever its
\* declared type: medium takes precedence over type when both are declared.
MediumTakesPrecedence ==
  \A c \in Categories :
    \A k \in 1..Len(emDownloaded[c]) :
      emDownloaded[c][k].medium \in {Image, Audio, Video} =>
        c = MediumBucket(emDownloaded[c][k].medium)

(***************************************************************************)
(* The HTML fields of an entry in save_items_as_files                      *)
(* (rssarchiver_core.py 905-933).                                          *)
(***************************************************************************)
\* line 861: the tag at match.start() + offset .. match.end() + offset of
\* new_html gives way to replacement, and offset moves by the difference of
\* the lengths (line 862); state is <<new_html, offset>>
RewriteSplice(match, state, group0, replacement) ==
  <<Slice(state[1], 0, match.start + state[2]) \o replacement
      \o Slice(state[1], match.end + state[2], Len(state[1])),
    state[2] + Len(replacement) - Len(group0)>>

\* lines 858-862: with a local path the tag is replaced, without one
\* new_html and offset stay
RewriteGroup(match, state, group0, img_url, local_path) ==
  IF HasLocalPath(local_path)
  THEN RewriteSplice(match, state, group0,
                     Replace(group0, img_url, local_path))
  ELSE state

\* lines 854-857: img_url = match.group(1) is joined to the base and
\* downloaded; ok says whether the download goes through
RewriteImg(html, base, match, state, ok, img_url) ==
  RewriteGroup(match, state, Slice(html, match.start, match.end), img_url,
               download_image(UrlJoin(base, img_url), ok))

RECURSIVE RewriteLoop(_, _, _, _, _, _)
\* the loop of lines 853-865 from match k on; oks[k] says whether the
\* download of match k goes through. The result is new_html
RewriteLoop(html, base, matches, k, state, oks) ==
  IF k > Len(matches) THEN state[1]
  ELSE RewriteLoop(html, base, matches, k + 1,
         RewriteImg(html, base, matches[k], state, oks[k],
                    Slice(html, matches[k].g1s, matches[k].g1e)),
         oks)

\* rewritten_html of extract_and_download_images_in_html(html, base, ...)
RewrittenHtml(html, base, oks) ==
  IF html = <<>> THEN html
  ELSE RewriteLoop(html, base, FindIter(html, 1), 1, <<html, 0>>, oks)

\* item_metadata.get(key, '')
GetOrEmpty(value) == IF value = Absent THEN <<>> ELSE value

\* not s.strip()
IsBlank(s) == \A i \in 1..Len(s) : IsSpace(s[i])

\* the HTML texts of the entries of the model
ItHtmls ==
  {Concat(ps) : ps \in UNION {[1..n -> {TextPlain, TagPlain, TagUpper}] :
                               n \in 1..2}}

ItInit ==
  /\ SanIdle
  /\ RunIdle
  /\ DlIdle
  /\ RwIdle
  /\ EmIdle
  /\ NmIdle
  /\ CtIdle
  /\ FtIdle
  /\ UpIdle
  /\ FvIdle
  /\ DfIdle
  /\ McIdle
  /\ IaIdle
  /\ CfIdle
  /\ itIn \in [description : ItHtmls \cup {Absent},
               content_encoded : ItHtmls \cup {Absent, <<>>, <<" ">>}]
  /\ itMeta = itIn
  /\ itPc = "html"
  /\ itRewritten = <<>>

\* lines 906-909: content_encoded when it is not blank, else description
html_to_process(meta) ==
  IF ~IsBlank(GetOrEmpty(meta.content_encoded))
  THEN GetOrEmpty(meta.content_encoded)
  ELSE GetOrEmpty(meta.description)

\* lines 927-930: the rewritten text is stored in the field whose value
\* equals the text that was processed, description being tested first
ItStore(html, rewritten_html) ==
  /\ itRewritten' = rewritten_html
  /\ itMeta' =
       IF html = GetOrEmpty(itMeta.description)
       THEN [itMeta EXCEPT !.description = rewritten_html]
       ELSE IF html = GetOrEmpty(itMeta.content_encoded)
            THEN [itMeta EXCEPT !.content_encoded = rewritten_html]
            ELSE itMeta

\* lines 911-916: the images of the text are downloaded, each download
\* going through or not, and the text rewritten
ItRewrite(html) ==
  \E oks \in [1..Len(FindIter(html, 1)) -> BOOLEAN] :
    ItStore(html, RewrittenHtml(html, RwBaseUrl, oks))

\* lines 905-933: the text to process is chosen, rewritten and stored
ItProcessHtml ==
  /\ itPc = "html"
  /\ ItRewrite(html_to_process(itMeta))
  /\ itPc' = "done"
  /\ UNCHANGED <<itIn, notItVars>>

ItNext == ItProcessHtml

SpecItemHtml == ItInit /\ [][ItNext]_vars

\* C12: if content_encoded is present and not blank the rewritten HTML is
\* stored in content_encoded and description keeps its extracted value;
\* otherwise the rewritten HTML is stored in description and
\* content_encoded is unchanged; also when both fields hold the same
\* string and when description is absent.
OtherHtmlFieldUntouched ==
  itPc = "done" =>
    IF itIn.content_encoded # Absent /\ ~IsBlank(itIn.content_encoded)
    THEN /\ itMeta.content_encoded = itRewritten
         /\ itMeta.description = itIn.description
    ELSE /\ itMeta.description = itRewritten
         /\ itMeta.content_encoded = itIn.content_encoded

(***************************************************************************)
(* The names of the item files, save_items_as_files                        *)
(* (rssarchiver_core.py 883-903, 926-928).                                 *)
(***************************************************************************)
\* the longest safe_title (line 901)
TitleLimit == 100

\* the publication dates of the model: a pubDate is absent, or a string
\* parsedate_to_datetime rejects, or the date of an hour of a day
PubDates ==
  {[present |-> FALSE, valid |-> FALSE, day |-> 0, hour |-> 0],
   [present |-> TRUE, valid |-> FALSE, day |-> 0, hour |-> 0]}
    \cup [present : {TRUE}, valid : {TRUE}, day : {1, 2}, hour : {1, 2}]

ItemTitles == {Absent, <<"a">>, <<"b">>, <<"a", "/", "b">>}

\* f'item_{i}'
ItemPlaceholder(i) == <<"i", "t", "e", "m", "_">> \o Decimal(i)

\* date_str of lines 892-899: dt.strftime('%Y-%m-%d') of a date that
\* parses, item_<i> otherwise
date_str(i, pubDate) ==
  IF pubDate.present /\ pubDate.valid
  THEN <<"2", "0", "2", "4", "-", "0", "1", "-", "0">> \o Decimal(pubDate.day)
  ELSE ItemPlaceholder(i)

\* safe_title of line 901
safe_title(title) ==
  LET kept == SelectSeq(title, LAMBDA c : c # "NUL")
      swapped == [k \in 1..Len(kept) |->
                    IF kept[k] = "/" THEN "DIVSLASH" ELSE kept[k]]
  IN  Slice(swapped, 0, IF Len(swapped) < TitleLimit THEN Len(swapped)
                        ELSE TitleLimit)

\* filename of line 902, for format 'json'
item_filename(i, entry) ==
  date_str(i, entry.pubDate) \o <<" ", "EMDASH", " ">>
    \o safe_title(IF entry.title = Absent THEN ItemPlaceholder(i)
                  ELSE entry.title)
    \o <<".", "j", "s", "o", "n">>

NmInit ==
  /\ SanIdle
  /\ RunIdle
  /\ DlIdle
  /\ RwIdle
  /\ EmIdle
  /\ ItIdle
  /\ CtIdle
  /\ FtIdle
  /\ UpIdle
  /\ FvIdle
  /\ DfIdle
  /\ McIdle
  /\ IaIdle
  /\ CfIdle
  /\ nmEntries \in UNION {[1..n -> [title : ItemTitles, pubDate : PubDates]] :
                           n \in 1..MaxEntries}
  /\ nmIdx = 0
  /\ nmFiles = EmptyMap
  /\ nmPc = "items"

\* one iteration of the loop of line 883: the file of entry i is opened for
\* writing under its name and the item is dumped into it
NmSaveItem ==
  /\ nmPc = "items"
  /\ nmIdx < Len(nmEntries)
  /\ nmFiles' = MapPut(nmFiles, item_filename(nmIdx, nmEntries[nmIdx + 1]),
                       nmIdx)
  /\ nmIdx' = nmIdx + 1
  /\ UNCHANGED <<nmEntries, nmPc, notNmVars>>

\* line 994: the loop has ended
NmReturn ==
  /\ nmPc = "items"
  /\ nmIdx = Len(nmEntries)
  /\ nmPc' = "done"
  /\ UNCHANGED <<nmEntries, nmIdx, nmFiles, notNmVars>>

NmNext ==
  \/ NmSaveItem
  \/ NmReturn

SpecItemNames == NmInit /\ [][NmNext]_vars

TypePdf ==
  <<"a", "p", "p", "l", "i", "c", "a", "t", "i", "o", "n", "/", "p", "d", "f">>
Pdf == <<"p", "d", "f">>
Document == <<"d", "o", "c", "u", "m", "e", "n", "t">>
UrlPdf == HttpPrefix \o <<"h", "/", "d", ".", "p", "d", "f">>
UrlMp3 == HttpPrefix \o <<"h", "/", "e", ".", "m", "p", "3">>

\* category of an enclosure, lines 304-318
enclosure_category(enc_type) ==
  IF Contains(enc_type, Image) THEN "images"
  ELSE IF Contains(enc_type, Audio) THEN "audio"
  ELSE IF Contains(enc_type, Video) THEN "video"
  ELSE IF Contains(enc_type, Pdf) \/ Contains(enc_type, Document)
       THEN "documents"
  ELSE "other"

\* lines 858-860: the image is recorded when it has a local path
HtmlImageRecord(full_url, local_path) ==
  IF HasLocalPath(local_path)
  THEN <<[original_url |-> full_url, local_path |-> local_path,
          source |-> "html"]>>
  ELSE <<>>

\* lines 856-860 for one image
HtmlImageOf(full_url, ok) ==
  HtmlImageRecord(full_url, download_image(full_url, ok))

RECURSIVE HtmlImagesLoop(_, _, _, _, _)
\* downloaded of lines 853-865 from match k on
HtmlImagesLoop(html, base, matches, k, oks) ==
  IF k > Len(matches) THEN <<>>
  ELSE HtmlImageOf(UrlJoin(base, Slice(html, matches[k].g1s, matches[k].g1e)),
                   oks[k])
         \o HtmlImagesLoop(html, base, matches, k + 1, oks)

\* html_images: the list extract_and_download_images_in_html returns
HtmlImages(html, base, oks) ==
  IF html = <<>> THEN <<>>
  ELSE HtmlImagesLoop(html, base, FindIter(html, 1), 1, oks)

\* a mutant: a URL that already has a record in some bucket is not
\* recorded again
AddDownloadedOnce(downloaded, category, url, local_path, source) ==
  IF url # <<>> /\ HasLocalPath(local_path)
     /\ \A c \in DOMAIN downloaded : \A k \in 1..Len(downloaded[c]) :
          downloaded[c][k].original_url # url
  THEN [downloaded EXCEPT ![category] =
          Append(@, [original_url |-> url, local_path |-> local_path,
                     source |-> source])]
  ELSE downloaded

\* the appends of lines 283-296 and 321-330: a file that has a URL and a
\* local path is added to the bucket of its category
AddDownloaded(downloaded, category, url, local_path, source) ==
  IF url # <<>> /\ HasLocalPath(local_path)
  THEN [downloaded EXCEPT ![category] =
          Append(@, [original_url |-> url, local_path |-> local_path,
                     source |-> source])]
  ELSE downloaded

\* download_file into the subfolder of the category, then the append
DownloadInto(downloaded, category, url, ok, source) ==
  AddDownloaded(downloaded, category, url,
                download_result(url, media_subfolder(category), ok), source)

RECURSIVE ContentLoop(_, _, _, _)
\* the loop of lines 264-296 from element k on, adding to downloaded
ContentLoop(content, k, downloaded, oks) ==
  IF k > Len(content) THEN downloaded
  ELSE ContentLoop(content, k + 1,
         DownloadInto(downloaded,
                      media_category(content[k].type, content[k].medium),
                      content[k].url, oks[k], "media:content"),
         oks)

RECURSIVE EnclosureLoop(_, _, _, _)
\* the loop of lines 299-330 from enclosure k on, adding to downloaded
EnclosureLoop(enclosures, k, downloaded, oks) ==
  IF k > Len(enclosures) THEN downloaded
  ELSE EnclosureLoop(enclosures, k + 1,
         DownloadInto(downloaded, enclosure_category(enclosures[k].type),
                      enclosures[k].url, oks[k], "enclosure"),
         oks)

\* extract_all_media for an entry that has media:content elements and
\* enclosures and none of the other media elements
extract_all_media(entry, oksContent, oksEnclosure) ==
  EnclosureLoop(entry.enclosures, 1,
    ContentLoop(entry.content, 1, [c \in Categories |-> <<>>], oksContent),
    oksEnclosure)

\* a mutant: a bucket that is not empty counts as one
bucket_count_one(items) == IF items = <<>> THEN 0 ELSE 1

\* len(items) of line 924
bucket_count(items) == Len(items)

RECURSIVE SumOver(_, _)
\* sum(counts.values()) over the categories cs
SumOver(counts, cs) ==
  IF cs = {} THEN 0
  ELSE LET c == CHOOSE x \in cs : TRUE
       IN  counts[c] + SumOver(counts, cs \ {c})

\* the entries of the feeds of the model: one without media, one with an
\* HTML image and a media:content image, one with a media:content audio
\* and a PDF enclosure, one with an HTML image and an audio enclosure
CtEntryKinds ==
  {[html |-> <<>>, content |-> <<>>, enclosures |-> <<>>],
   [html |-> TagPlain,
    content |-> <<[url |-> UrlPng, type |-> <<>>, medium |-> Image]>>,
    enclosures |-> <<>>],
   [html |-> <<>>,
    content |-> <<[url |-> UrlMp3, type |-> TypeAudio, medium |-> <<>>]>>,
    enclosures |-> <<[url |-> UrlPdf, type |-> TypePdf]>>],
   [html |-> TagPlain, content |-> <<>>,
    enclosures |-> <<[url |-> UrlMp3, type |-> TypeAudio]>>]}

CtInit ==
  /\ SanIdle
  /\ RunIdle
  /\ DlIdle
  /\ RwIdle
  /\ EmIdle
  /\ ItIdle
  /\ NmIdle
  /\ FtIdle
  /\ UpIdle
  /\ FvIdle
  /\ DfIdle
  /\ McIdle
  /\ IaIdle
  /\ CfIdle
  /\ ctEntries \in UNION {[1..n -> CtEntryKinds] : n \in 1..MaxEntries}
  /\ ctPc = "meta"
  /\ ctIdx = 0
  /\ ctFeedJson = -1
  /\ ctTotals = [c \in Categories |-> 0]
  /\ ctItems = <<>>
  /\ ctStats = NoStats

\* save_feed_metadata: feed.json is written with items_count (line 581)
CtSaveFeedMetadata ==
  /\ ctPc = "meta"
  /\ ctFeedJson' = Len(ctEntries)
  /\ ctPc' = "items"
  /\ UNCHANGED <<ctEntries, ctIdx, ctTotals, ctItems, ctStats, notCtVars>>

\* lines 911-921: all_media of an entry, the media of extract_all_media
\* with the images of its HTML added
all_media(entry, oksHtml, oksContent, oksEnclosure) ==
  [extract_all_media(entry, oksContent, oksEnclosure) EXCEPT
     !["images"] = @ \o HtmlImages(entry.html, RwBaseUrl, oksHtml)]

\* lines 922-926: the counters grow by the length of each bucket and the
\* media are stored in the item
CtCount(media) ==
  /\ ctTotals' = [c \in Categories |-> ctTotals[c] + bucket_count(media[c])]
  /\ ctItems' = Append(ctItems, media)

\* save_items_as_files, lines 883-928: the media of entry i are downloaded,
\* counted and stored in the item
CtSaveItem ==
  /\ ctPc = "items"
  /\ ctIdx < Len(ctEntries)
  /\ \E oksHtml \in [1..Len(FindIter(ctEntries[ctIdx + 1].html, 1)) -> BOOLEAN],
        oksContent \in [1..Len(ctEntries[ctIdx + 1].content) -> BOOLEAN],
        oksEnclosure \in [1..Len(ctEntries[ctIdx + 1].enclosures) -> BOOLEAN] :
       CtCount(all_media(ctEntries[ctIdx + 1], oksHtml, oksContent,
                         oksEnclosure))
  /\ ctIdx' = ctIdx + 1
  /\ UNCHANGED <<ctEntries, ctPc, ctFeedJson, ctStats, notCtVars>>

\* save_items_as_files returns (line 994) and download_rss_feed returns its
\* stats (lines 1081-1101)
CtReturn ==
  /\ ctPc = "items"
  /\ ctIdx = Len(ctEntries)
  /\ ctStats' = [items |-> Len(ctEntries),
                 images |-> ctTotals["images"],
                 total_media |-> SumOver(ctTotals, Categories),
                 media_breakdown |-> ctTotals]
  /\ ctPc' = "done"
  /\ UNCHANGED <<ctEntries, ctIdx, ctFeedJson, ctTotals, ctItems, notCtVars>>

CtNext ==
  \/ CtSaveFeedMetadata
  \/ CtSaveItem
  \/ CtReturn

SpecCounters == CtInit /\ [][CtNext]_vars

RECURSIVE BucketSum(_, _)
\* the sum, over the first n items, of the length of bucket c of the
\* item's downloaded_media
BucketSum(c, n) ==
  IF n = 0 THEN 0 ELSE BucketSum(c, n - 1) + Len(ctItems[n][c])

\* C15: after a successful run items_count of feed.json equals the number
\* of entries and the returned 'items'; for each category the summary
\* counter equals the sum over all items of the length of that bucket of
\* the item's downloaded_media, HTML images counted in images; every
\* recorded media entry has a local_path that is not null.
CountersMatchItems ==
  ctPc = "done" =>
    /\ ctFeedJson = Len(ctEntries)
    /\ ctStats.items = Len(ctEntries)
    /\ Len(ctItems) = Len(ctEntries)
    /\ \A c \in Categories :
         /\ ctStats.media_breakdown[c] = BucketSum(c, Len(ctItems))
         /\ \A i \in 1..Len(ctItems) :
              \A k \in 1..Len(ctItems[i][c]) :
                ctItems[i][c][k].local_path \notin {NoneVal, <<>>}
    /\ ctStats.images = BucketSum("images", Len(ctItems))

\* a run over two entries has returned: the first has an HTML image and a
\* media:content image, both downloaded, the second an audio element and a
\* PDF enclosure whose download failed
CountersWitness ==
  /\ ctPc = "done"
  /\ Len(ctEntries) = 2
  /\ Len(ctItems[1]["images"]) = 2
  /\ ctEntries[2].enclosures # <<>>
  /\ ctStats.media_breakdown =
       [c \in Categories |->
          CASE c = "images" -> 2 [] c = "audio" -> 1 [] OTHER -> 0]

(***************************************************************************)
(* The GETs of the pipeline: the feed through the session of               *)
(* utils/session.py (rssarchiver_core.py 1021-1040), a media file through  *)
(* requests.get (download_file 133-156, download_file_with_warc 199-226),  *)
(* the page fetch_favicon reads through the session (788-792).             *)
(***************************************************************************)
\* retries of create_session (session.py line 5): Retry(total=retries)
SessionRetries == 5

\* what one attempt of a GET ends in: a status, or a connection failure
Responses == {"200", "404", "429", "500", "503", "ConnectionError"}

\* status_forcelist of line 20, of the statuses of the model, and the
\* connection failures Retry counts as well
Transient(resp) == resp \in {"429", "500", "503", "ConnectionError"}

FetchKinds == {"feed", "media", "favicon_page"}

\* the retries the GET of a caller is given: session.get goes through the
\* adapter create_session mounted; requests.get (lines 136 and 201) makes
\* a session of its own, whose adapter has max_retries 0
RetriesOf(kind) == IF kind = "media" THEN 0 ELSE SessionRetries

\* the caller hands the response to create_warc_record: download_rss_feed
\* (lines 1030-1031) and download_file_with_warc (lines 205-206) do when a
\* writer is set; fetch_favicon has no writer
Captures(kind, warc) == warc /\ kind \in {"feed", "media"}

FtInit ==
  /\ SanIdle
  /\ RunIdle
  /\ DlIdle
  /\ RwIdle
  /\ EmIdle
  /\ ItIdle
  /\ NmIdle
  /\ CtIdle
  /\ UpIdle
  /\ FvIdle
  /\ DfIdle
  /\ McIdle
  /\ IaIdle
  /\ CfIdle
  /\ ftKind \in FetchKinds
  /\ ftWarc \in BOOLEAN
  /\ ftPc = "get"
  /\ ftLog = <<>>
  /\ ftResult = "none"
  /\ ftRecords = 0
  /\ ftUsed = FALSE

\* one attempt of the GET: a transient failure is retried while the adapter
\* has retries left; otherwise the caller sees the outcome, and every
\* caller raises on a status that is not 200 (lines 1025-1027, 137, 792)
FtAttempt ==
  /\ ftPc = "get"
  /\ \E resp \in Responses :
       /\ ftLog' = Append(ftLog, resp)
       /\ IF Transient(resp) /\ Len(ftLog) < RetriesOf(ftKind)
          THEN UNCHANGED <<ftPc, ftResult>>
          ELSE IF resp = "200"
               THEN ftPc' = "record" /\ UNCHANGED ftResult
               ELSE ftPc' = "done" /\ ftResult' = "failed"
  /\ UNCHANGED <<ftKind, ftWarc, ftRecords, ftUsed, notFtVars>>

\* the response is handed to create_warc_record when the caller captures
FtRecord ==
  /\ ftPc = "record"
  /\ ftRecords' = IF Captures(ftKind, ftWarc) THEN ftRecords + 1
                  ELSE ftRecords
  /\ ftPc' = "use"
  /\ UNCHANGED <<ftKind, ftWarc, ftLog, ftResult, ftUsed, notFtVars>>

\* the content is written to disk (feed.rss, the media file) or read (the
\* page of the site)
FtUse ==
  /\ ftPc = "use"
  /\ ftUsed' = TRUE
  /\ ftResult' = "ok"
  /\ ftPc' = "done"
  /\ UNCHANGED <<ftKind, ftWarc, ftLog, ftRecords, notFtVars>>

FtNext ==
  \/ FtAttempt
  \/ FtRecord
  \/ FtUse

SpecFetch == FtInit /\ [][FtNext]_vars

\* the attempts of the GET that ended in a transient failure
TransientFailures == {k \in 1..Len(ftLog) : Transient(ftLog[k])}

\* C16: every GET of the pipeline, the feed fetch and each media download
\* alike, is retried on 429/500/502/503/504 and on a connection failure up
\* to a bounded number of attempts before its caller sees a failure: a GET
\* whose only failure is one transient failure does not fail.
SingleTransientFailureRetried ==
  (/\ ftPc = "done"
   /\ Cardinality(TransientFailures) = 1
   /\ \A k \in 1..Len(ftLog) : Transient(ftLog[k]) \/ ftLog[k] = "200") =>
    ftResult = "ok"

\* C17: with capture enabled, for every HTTP exchange of the run (the feed
\* GET and every request made to resolve and download media) exactly one
\* create_warc_record call is made, before the response bytes are written
\* to disk or parsed.
EveryExchangeCaptured ==
  ftWarc =>
    /\ ftUsed => ftRecords = 1
    /\ (ftPc = "done" /\ ftLog[Len(ftLog)] # "ConnectionError") =>
         ftRecords = 1

(***************************************************************************)
(* rssuploader.py: main (725-741) and IAUploader.upload_dump (100-138).    *)
(***************************************************************************)
\* the methods class IAUploader defines (lines 96-542)
IAUploaderMethods ==
  {"__init__", "upload_dump", "_is_already_uploaded",
   "_extract_feed_metadata", "_generate_identifier", "_prepare_files",
   "_add_dumpmeta_files", "_compress_directory", "_compress_with_7z",
   "_create_item_metadata", "_url_to_keyword", "_upload_to_ia",
   "_filter_existing_files", "_wait_for_item_creation",
   "_update_item_metadata", "_create_subject_string", "_mark_as_uploaded",
   "_upload_logo"}

\* looking a method up on the uploader: a name the class does not define
\* raises AttributeError
HasMethod(name) == name \in IAUploaderMethods

is_already_uploaded_never(marked) == FALSE

\* _is_already_uploaded (140-142): the mark file exists
is_already_uploaded(marked) == marked

UpInit ==
  /\ SanIdle
  /\ RunIdle
  /\ DlIdle
  /\ RwIdle
  /\ EmIdle
  /\ ItIdle
  /\ NmIdle
  /\ CtIdle
  /\ FtIdle
  /\ FvIdle
  /\ DfIdle
  /\ McIdle
  /\ IaIdle
  /\ CfIdle
  /\ upKeysOk \in BOOLEAN
  /\ upFeedJson \in BOOLEAN
  /\ upLogoUrl \in BOOLEAN
  /\ upDelete \in BOOLEAN
  /\ upMarkedAtStart \in BOOLEAN
  /\ upMarked = upMarkedAtStart
  /\ upDirExists = TRUE
  /\ upPc = "main"
  /\ upRemote = <<>>
  /\ upLocal = {}
  /\ upLog = <<>>
  /\ upFailedIn = "none"
  /\ upError = "none"
  /\ upRet = -1

\* an exception of a step of upload_dump: the except of line 136 prints and
\* raises again, the except of main (line 739) returns 1
UpFail(step, e) ==
  /\ upFailedIn' = step
  /\ upError' = e
  /\ upRet' = 1
  /\ upPc' = "exited"

\* main up to the call of upload_dump: create_upload_config reads the keys
\* file, and a ValueError of read_ia_keys ends main with 1
UpMain ==
  /\ upPc = "main"
  /\ IF upKeysOk
     THEN /\ upPc' = "upload_dump"
          /\ UNCHANGED <<upFailedIn, upError, upRet>>
     ELSE UpFail("config", "ValueError")
  /\ UNCHANGED <<upKeysOk, upFeedJson, upLogoUrl, upDelete, upMarkedAtStart,
                 upMarked, upDirExists, upRemote, upLocal, upLog, notUpVars>>

\* lines 102-105: with the mark upload_dump returns at once and main
\* returns 0
UpCheckMark ==
  /\ upPc = "upload_dump"
  /\ IF is_already_uploaded(upMarked)
     THEN upPc' = "exited" /\ upRet' = 0
     ELSE upPc' = "prepare" /\ UNCHANGED upRet
  /\ UNCHANGED <<upKeysOk, upFeedJson, upLogoUrl, upDelete, upMarkedAtStart,
                 upMarked, upDirExists, upRemote, upLocal, upLog,
                 upFailedIn, upError, notUpVars>>

\* lines 109-114: feed.json is read (FileNotFoundError without it), the
\* directories are packed with 7z next to them (subprocess.run with
\* check=True raises when 7z fails)
UpPrepare ==
  /\ upPc = "prepare"
  /\ IF ~upFeedJson
     THEN UpFail("prepare", "FileNotFoundError") /\ UNCHANGED <<upLocal, upLog>>
     ELSE \E ok \in BOOLEAN :
            IF ok
            THEN /\ upLocal' = upLocal \cup {"7z"}
                 /\ upLog' = Append(upLog, "prepare")
                 /\ upPc' = "upload"
                 /\ UNCHANGED <<upFailedIn, upError, upRet>>
            ELSE /\ UpFail("prepare", "CalledProcessError")
                 /\ UNCHANGED <<upLocal, upLog>>
  /\ UNCHANGED <<upKeysOk, upFeedJson, upLogoUrl, upDelete, upMarkedAtStart,
                 upMarked, upDirExists, upRemote, notUpVars>>

\* line 115, _upload_to_ia: the files are sent to the item, which may raise
UpUploadToIa ==
  /\ upPc = "upload"
  /\ upRemote' = Append(upRemote, "upload")
  /\ \E ok \in BOOLEAN :
       IF ok
       THEN /\ upLog' = Append(upLog, "upload")
            /\ upPc' = "logo"
            /\ UNCHANGED <<upFailedIn, upError, upRet>>
       ELSE UpFail("upload", "HTTPError") /\ UNCHANGED upLog
  /\ UNCHANGED <<upKeysOk, upFeedJson, upLogoUrl, upDelete, upMarkedAtStart,
                 upMarked, upDirExists, upLocal, notUpVars>>

\* lines 118-122: get_item, which may raise, then _upload_logo, which
\* returns without a request when there is no image url and catches what
\* its own download and upload raise (lines 571-610)
UpUploadLogo ==
  /\ upPc = "logo"
  /\ \E out \in {"ok", "caught", "raise"} :
       IF out = "raise"
       THEN /\ upRemote' = Append(upRemote, "get_item")
            /\ UpFail("logo", "ConnectionError")
            /\ UNCHANGED upLog
       ELSE /\ upRemote' = IF upLogoUrl
                           THEN upRemote \o
                                  <<"get_item",
                                    IF out = "ok" THEN "logo"
                                    ELSE "logo_failed">>
                           ELSE Append(upRemote, "get_item")
            /\ upLog' = Append(upLog, "logo")
            /\ upPc' = "metadata"
            /\ UNCHANGED <<upFailedIn, upError, upRet>>
  /\ UNCHANGED <<upKeysOk, upFeedJson, upLogoUrl, upDelete, upMarkedAtStart,
                 upMarked, upDirExists, upLocal, notUpVars>>

\* line 125, _update_item_metadata: modify_metadata and raise_for_status
UpUpdateMetadata ==
  /\ upPc = "metadata"
  /\ upRemote' = Append(upRemote, "metadata")
  /\ \E ok \in BOOLEAN :
       IF ok
       THEN /\ upLog' = Append(upLog, "metadata")
            /\ upPc' = "mark"
            /\ UNCHANGED <<upFailedIn, upError, upRet>>
       ELSE UpFail("metadata", "HTTPError") /\ UNCHANGED upLog
  /\ UNCHANGED <<upKeysOk, upFeedJson, upLogoUrl, upDelete, upMarkedAtStart,
                 upMarked, upDirExists, upLocal, notUpVars>>

\* line 128, _mark_as_uploaded (533-540): the mark file is written
UpMarkAsUploaded ==
  /\ upPc = "mark"
  /\ upMarked' = TRUE
  /\ upLocal' = upLocal \cup {"mark"}
  /\ upLog' = Append(upLog, "mark")
  /\ upPc' = "cleanup"
  /\ UNCHANGED <<upKeysOk, upFeedJson, upLogoUrl, upDelete, upMarkedAtStart,
                 upDirExists, upRemote, upFailedIn, upError, upRet, notUpVars>>

\* lines 131-134 and main's return: with delete_after_upload the method
\* _cleanup_dump_dir is looked up on the uploader and called
UpCleanup ==
  /\ upPc = "cleanup"
  /\ IF upDelete
     THEN IF HasMethod("_cleanup_dump_dir")
          THEN /\ upDirExists' = FALSE
               /\ upMarked' = FALSE
               /\ upLog' = Append(upLog, "cleanup")
               /\ upRet' = 0
               /\ upPc' = "exited"
               /\ UNCHANGED <<upFailedIn, upError>>
          ELSE /\ UpFail("cleanup", "AttributeError")
               /\ UNCHANGED <<upDirExists, upMarked, upLog>>
     ELSE /\ upRet' = 0
          /\ upPc' = "exited"
          /\ UNCHANGED <<upDirExists, upMarked, upLog, upFailedIn, upError>>
  /\ UNCHANGED <<upKeysOk, upFeedJson, upLogoUrl, upDelete, upMarkedAtStart,
                 upRemote, upLocal, notUpVars>>

UpNext ==
  \/ UpMain
  \/ UpCheckMark
  \/ UpPrepare
  \/ UpUploadToIa
  \/ UpUploadLogo
  \/ UpUpdateMetadata
  \/ UpMarkAsUploaded
  \/ UpCleanup

SpecUpload == UpInit /\ [][UpNext]_vars

\* the steps of upload_dump the mark waits for
UploadSteps == {"upload", "logo", "metadata"}

\* the steps of the log before the mark
BeforeMark ==
  {upLog[k] : k \in {j \in 1..Len(upLog) :
                       \E i \in j + 1..Len(upLog) : upLog[i] = "mark"}}

\* C18: upload_dump with the uploaded mark present at the start makes no
\* remote operation and changes no file; without it the mark is written
\* only after the file upload, the logo step and the metadata update have
\* all returned, and when one of them raises the mark is not written.
MarkOnlyAfterUpload ==
  /\ upMarkedAtStart => (upRemote = <<>> /\ upLocal = {} /\ upLog = <<>>)
  /\ (~upMarkedAtStart /\ "mark" \in upLocal) => UploadSteps \subseteq BeforeMark
  /\ upFailedIn \in UploadSteps => ("mark" \notin upLocal /\ ~upMarked)

MarkWritten ==
  /\ ~upMarkedAtStart
  /\ "mark" \in upLocal
  /\ upPc = "exited"
  /\ upRet = 0

\* C19: with delete_after_upload set, after an upload whose steps all
\* succeeded the dump directory is deleted, upload_dump does not raise and
\* main returns 0.
DeleteAfterUploadSucceeds ==
  (/\ upDelete
   /\ upPc = "exited"
   /\ UploadSteps \subseteq {upLog[k] : k \in 1..Len(upLog)}) =>
    (~upDirExists /\ upError = "none" /\ upRet = 0)

(***************************************************************************)
(* save_feed_metadata, the image of the channel (rssarchiver_core.py       *)
(* 739-769), and fetch_favicon (781-838).                                  *)
(***************************************************************************)
\* the forms of the image element of a feed
FeedImages == {"none", "nourl", "http", "relative"}

\* img_url of line 745 is not empty
HasImgUrl(image) == image \in {"http", "relative"}

\* common_paths of line 816
CommonPaths == <<"/favicon.ico", "/favicon.png", "/apple-touch-icon.png">>

\* the condition of line 751: `not local_img and metadata['link']`
FaviconWanted(localImg, link) == localImg = "none" /\ link

FvInit ==
  /\ SanIdle
  /\ RunIdle
  /\ DlIdle
  /\ RwIdle
  /\ EmIdle
  /\ ItIdle
  /\ NmIdle
  /\ CtIdle
  /\ FtIdle
  /\ UpIdle
  /\ DfIdle
  /\ McIdle
  /\ IaIdle
  /\ CfIdle
  /\ fvImage \in FeedImages
  /\ fvLink \in BOOLEAN
  /\ fvPc = "image"
  /\ fvRequests = <<>>
  /\ fvLocalImg = "none"
  /\ fvFaviconUrl = "none"
  /\ fvProbe = 1
  /\ fvAttempted = FALSE
  /\ fvMeta = NoImageRecord
  /\ fvImgUrl = "none"

\* lines 740-748: download_file on the URL of the image element. A URL that
\* is not http(s) is skipped without a request, a file already on disk is
\* returned without a request, a GET that fails gives None
FvChannelImage ==
  /\ fvPc = "image"
  /\ \E out \in {"ok", "fail", "cached"} :
       IF fvImage = "http"
       THEN /\ fvRequests' = IF out = "cached" THEN fvRequests
                             ELSE Append(fvRequests, "GET image")
            /\ fvLocalImg' = IF out = "fail" THEN "none" ELSE "image"
       ELSE UNCHANGED <<fvRequests, fvLocalImg>>
  /\ fvImgUrl' = IF HasImgUrl(fvImage) THEN "image" ELSE "none"
  /\ fvPc' = "fallback"
  /\ UNCHANGED <<fvImage, fvLink, fvFaviconUrl, fvProbe, fvAttempted, fvMeta,
                 notFvVars>>

\* lines 751-753: fetch_favicon is called or not
FvFallback ==
  /\ fvPc = "fallback"
  /\ IF FaviconWanted(fvLocalImg, fvLink)
     THEN fvAttempted' = TRUE /\ fvPc' = "page"
     ELSE UNCHANGED fvAttempted /\ fvPc' = "store"
  /\ UNCHANGED <<fvImage, fvLink, fvRequests, fvLocalImg, fvFaviconUrl,
                 fvProbe, fvMeta, fvImgUrl, notFvVars>>

\* fetch_favicon, lines 788-812: the page of the site is read; a failure is
\* caught by the except of line 836 and (None, None) returned; the page
\* declares an icon or not
FvPage ==
  /\ fvPc = "page"
  /\ fvRequests' = Append(fvRequests, "GET page")
  /\ \E out \in {"fail", "declared", "undeclared"} :
       /\ fvPc' = CASE out = "fail" -> "store"
                    [] out = "declared" -> "download"
                    [] OTHER -> "probe"
       /\ fvFaviconUrl' = IF out = "declared" THEN "declared" ELSE fvFaviconUrl
  /\ UNCHANGED <<fvImage, fvLink, fvLocalImg, fvProbe, fvAttempted, fvMeta,
                 fvImgUrl, notFvVars>>

\* fetch_favicon, lines 815-825: one HEAD of the loop over common_paths; the
\* first answered 200 is taken, an exception or another status goes on to
\* the next path, and without one (None, None) is returned (line 833)
FvProbe ==
  /\ fvPc = "probe"
  /\ fvRequests' = Append(fvRequests, "HEAD " \o CommonPaths[fvProbe])
  /\ \E out \in {"200", "404", "raise"} :
       IF out = "200"
       THEN /\ fvFaviconUrl' = CommonPaths[fvProbe]
            /\ fvPc' = "download"
            /\ UNCHANGED fvProbe
       ELSE IF fvProbe < Len(CommonPaths)
            THEN /\ fvProbe' = fvProbe + 1
                 /\ UNCHANGED <<fvFaviconUrl, fvPc>>
            ELSE /\ fvPc' = "store"
                 /\ UNCHANGED <<fvFaviconUrl, fvProbe>>
  /\ UNCHANGED <<fvImage, fvLink, fvLocalImg, fvAttempted, fvMeta, fvImgUrl,
                 notFvVars>>

\* fetch_favicon, lines 827-831, and lines 754-756: download_image on the
\* favicon URL; local_img is set when a path came back
FvDownload ==
  /\ fvPc = "download"
  /\ \E out \in {"ok", "fail", "cached"} :
       /\ fvRequests' = IF out = "cached" THEN fvRequests
                        ELSE Append(fvRequests, "GET favicon")
       /\ fvLocalImg' = IF out = "fail" THEN fvLocalImg ELSE "favicon"
       /\ fvImgUrl' = IF out = "fail" THEN fvImgUrl ELSE "favicon"
  /\ fvPc' = "store"
  /\ UNCHANGED <<fvImage, fvLink, fvFaviconUrl, fvProbe, fvAttempted, fvMeta,
                 notFvVars>>

\* bool(feed_image): the image element of the feed is there
HasFeedImage(image) == image # "none"

\* line 768: 'is_favicon': not bool(feed_image)
is_favicon(image) == ~HasFeedImage(image)

\* lines 759-769: metadata['image'] is set when local_img is
FvStore ==
  /\ fvPc = "store"
  /\ fvMeta' = IF fvLocalImg # "none"
               THEN [present |-> TRUE, url |-> fvImgUrl,
                     local_path |-> fvLocalImg,
                     is_favicon |-> is_favicon(fvImage)]
               ELSE fvMeta
  /\ fvPc' = "done"
  /\ UNCHANGED <<fvImage, fvLink, fvRequests, fvLocalImg, fvFaviconUrl,
                 fvProbe, fvAttempted, fvImgUrl, notFvVars>>

FvNext ==
  \/ FvChannelImage
  \/ FvFallback
  \/ FvPage
  \/ FvProbe
  \/ FvDownload
  \/ FvStore

SpecFavicon == FvInit /\ [][FvNext]_vars

\* C20: save_feed_metadata attempts favicon discovery if and only if the
\* feed declares no channel image with a URL and the channel link is not
\* empty; with a channel image URL that image is the only one requested
\* and no favicon request is made.
FaviconOnlyWithoutImageUrl ==
  fvPc \in {"store", "done"} =>
    /\ fvAttempted <=> (~HasImgUrl(fvImage) /\ fvLink)
    /\ HasImgUrl(fvImage) =>
         \A k \in 1..Len(fvRequests) : fvRequests[k] = "GET image"

\* C21: in the image record of feed.json is_favicon is true exactly when
\* url and local_path come from favicon discovery and false exactly when
\* they are the channel image the feed declares, and url is the URL the
\* local file was downloaded from.
IsFaviconTellsProvenance ==
  (fvPc = "done" /\ fvMeta.present) =>
    /\ fvMeta.is_favicon <=> fvMeta.local_path = "favicon"
    /\ fvMeta.url = fvMeta.local_path

(***************************************************************************)
(* The downloader on a feed that refers to two URLs with the same last     *)
(* path segment (get_safe_filename 39-52, download_file 114-131).          *)
(***************************************************************************)
UrlPngDeep ==
  HttpPrefix \o <<"h", "/", "b", "/", "a", ".", "p", "n", "g">>
UrlIcoOther == HttpsPrefix \o <<"g", "/", "f", ".", "I", "C", "O">>

\* the media URLs of such feeds
SameNamePairs == {{UrlPng, UrlPngDeep}, {UrlIco, UrlIcoOther}}

DlPairInit ==
  /\ SanIdle
  /\ RunIdle
  /\ RwIdle
  /\ EmIdle
  /\ ItIdle
  /\ NmIdle
  /\ CtIdle
  /\ FtIdle
  /\ UpIdle
  /\ FvIdle
  /\ DfIdle
  /\ McIdle
  /\ IaIdle
  /\ CfIdle
  /\ pilAvailable \in BOOLEAN
  /\ feedUrls \in SameNamePairs
  /\ feedSub \in DlSubs
  /\ dlSeed \in HashSeeds
  /\ dlRuns = 1
  /\ fs = EmptyMap
  /\ dirs = {}
  /\ watched = NoWatch
  /\ svPc = "items"
  /\ svItem = 0
  /\ svMedia = 0
  /\ svFailed = FALSE
  /\ svSurvived = FALSE
  /\ svWritten = {}
  /\ dlPc = "idle"
  /\ dlUrl = <<>>
  /\ dlSub = <<>>
  /\ dlRel = NoneVal
  /\ dlFmt = "raw"
  /\ dlRet = NoneVal
  /\ dlExc = "none"
  /\ dlReqs = 0
  /\ dlWrites = 0
  /\ dlPrev = NoneVal

SpecDownloadPair == DlPairInit /\ [][DlNext]_vars

\* C22: for two distinct URLs downloaded into the same category directory
\* in one run, the file at the local path returned for each URL holds the
\* bytes fetched from that URL: URLs that share their last path segment do
\* not share one local file.
ReturnedFileIsOfUrl ==
  (dlRuns = 1 /\ dlPc = "return" /\ dlRet # NoneVal) =>
    fs[dlRet].src = dlUrl

\* C23: when the ICO to PNG conversion of a fetched icon fails,
\* download_file still succeeds and the stored file holds the fetched bytes
\* under the original file name and extension (.ico), which the returned
\* relative path carries.
FailedConversionKeepsIco ==
  (dlPc = "return" /\ dlUrl = UrlIco /\ dlRet # NoneVal
     /\ fs[dlRet].fmt = "raw") =>
    dlRet = RelativePath(dlSub, get_safe_filename(dlSeed, dlUrl, DefaultExt))

(***************************************************************************)
(* download_rss_feed (rssarchiver_core.py 997-1101) as main calls it       *)
(* (rssdumper.py 141-152), with the capture of save_warc and the SIGINT    *)
(* handler (rssdumper.py 64-66).                                           *)
(***************************************************************************)
DfInit ==
  /\ SanIdle
  /\ RunIdle
  /\ DlIdle
  /\ RwIdle
  /\ EmIdle
  /\ ItIdle
  /\ NmIdle
  /\ CtIdle
  /\ FtIdle
  /\ UpIdle
  /\ FvIdle
  /\ McIdle
  /\ IaIdle
  /\ CfIdle
  /\ dfWarc \in BOOLEAN
  /\ dfPc = "setup"
  /\ dfFiles = <<>>
  /\ dfRss = "none"
  /\ dfWarcFile = "none"
  /\ dfPatched = FALSE
  /\ dfRebound = FALSE
  /\ dfEntries = -1
  /\ dfItem = 0
  /\ dfErr = "none"
  /\ dfReturned = FALSE
  /\ dfInterrupted = FALSE
  /\ dfExit = -1

\* an exception e leaves download_rss_feed: the except of main (rssdumper.py
\* 148-151) prints, show_edge_case_warning ends the process with 13 or
\* returns, and then sys.exit(1)
DfRaise(e) ==
  /\ dfErr' = e
  /\ dfPc' = "exited"
  /\ \E edgecaseOk \in BOOLEAN : dfExit' = FailureStatus(edgecaseOk)

\* warc_file.close() under `if warc_file:` (lines 1042-1043, 1047-1048)
ClosedIfOpen(f) == IF f = "open" THEN "closed" ELSE f

\* lines 1001-1019: with save_warc the capture file is opened and the
\* warcinfo record written; open may raise
DfSetupWarc ==
  /\ dfPc = "setup"
  /\ IF dfWarc
     THEN \E ok \in BOOLEAN :
            IF ok
            THEN /\ dfWarcFile' = "open"
                 /\ dfFiles' = Append(dfFiles, "feed.warc.gz")
                 /\ dfPc' = "fetch"
                 /\ UNCHANGED <<dfErr, dfExit>>
            ELSE /\ DfRaise("OSError")
                 /\ UNCHANGED <<dfWarcFile, dfFiles>>
     ELSE /\ dfPc' = "fetch"
          /\ UNCHANGED <<dfWarcFile, dfFiles, dfErr, dfExit>>
  /\ UNCHANGED <<dfWarc, dfRss, dfPatched, dfRebound, dfEntries, dfItem,
                 dfReturned, dfInterrupted, notDfVars>>

\* lines 1021-1027 and the except of 1041-1044: the GET of the feed; a
\* status that is not 200 or a failed request closes the capture file and
\* raises
DfFetch ==
  /\ dfPc = "fetch"
  /\ \E out \in {"ok", "HTTPStatusError", "ConnectionError"} :
       IF out = "ok"
       THEN /\ dfPc' = "record"
            /\ UNCHANGED <<dfWarcFile, dfErr, dfExit>>
       ELSE /\ dfWarcFile' = ClosedIfOpen(dfWarcFile)
            /\ DfRaise(out)
  /\ UNCHANGED <<dfWarc, dfFiles, dfRss, dfPatched, dfRebound, dfEntries,
                 dfItem, dfReturned, dfInterrupted, notDfVars>>

\* lines 1029-1031: with a writer the response goes to create_warc_record,
\* which catches what it raises (lines 54-95)
DfRecord ==
  /\ dfPc = "record"
  /\ dfPc' = "write_rss"
  /\ UNCHANGED <<dfWarc, dfFiles, dfRss, dfWarcFile, dfPatched, dfRebound,
                 dfEntries, dfItem, dfErr, dfReturned, dfInterrupted, dfExit,
                 notDfVars>>

\* lines 1033-1037: feed.rss is written with response.content; a failed
\* write is caught at 1041
DfWriteRss ==
  /\ dfPc = "write_rss"
  /\ \E ok \in BOOLEAN :
       IF ok
       THEN /\ dfFiles' = Append(dfFiles, "feed.rss")
            /\ dfRss' = "response"
            /\ dfPc' = "parse"
            /\ UNCHANGED <<dfWarcFile, dfErr, dfExit>>
       ELSE /\ dfWarcFile' = ClosedIfOpen(dfWarcFile)
            /\ DfRaise("OSError")
            /\ UNCHANGED <<dfFiles, dfRss>>
  /\ UNCHANGED <<dfWarc, dfPatched, dfRebound, dfEntries, dfItem, dfReturned,
                 dfInterrupted, notDfVars>>

\* lines 1040 and 1046-1049: the feed is parsed; without entries the
\* capture file is closed and "No items found in feed." raised
DfParse ==
  /\ dfPc = "parse"
  /\ \E n \in 0..MaxEntries :
       /\ dfEntries' = n
       /\ IF n = 0
          THEN /\ dfWarcFile' = ClosedIfOpen(dfWarcFile)
               /\ DfRaise("NoItems")
          ELSE /\ dfPc' = "mkdirs"
               /\ UNCHANGED <<dfWarcFile, dfErr, dfExit>>
  /\ UNCHANGED <<dfWarc, dfFiles, dfRss, dfPatched, dfRebound, dfItem,
                 dfReturned, dfInterrupted, notDfVars>>

\* lines 1054-1060: the media directories are made, outside any try
DfMkdirs ==
  /\ dfPc = "mkdirs"
  /\ \E ok \in BOOLEAN :
       IF ok
       THEN /\ dfPc' = "patch"
            /\ UNCHANGED <<dfErr, dfExit>>
       ELSE DfRaise("OSError")
  /\ UNCHANGED <<dfWarc, dfFiles, dfRss, dfWarcFile, dfPatched, dfRebound,
                 dfEntries, dfItem, dfReturned, dfInterrupted, notDfVars>>

\* lines 1063-1067: with a writer download_file is rebound to the lambda
DfPatch ==
  /\ dfPc = "patch"
  /\ dfPatched' = dfWarc
  /\ dfRebound' = dfWarc
  /\ dfPc' = "meta"
  /\ UNCHANGED <<dfWarc, dfFiles, dfRss, dfWarcFile, dfEntries, dfItem, dfErr,
                 dfReturned, dfInterrupted, dfExit, notDfVars>>

\* the finally of lines 1075-1079
DfFinally ==
  /\ dfPatched' = FALSE
  /\ dfWarcFile' = ClosedIfOpen(dfWarcFile)

\* line 1071: save_feed_metadata writes feed.json or raises
DfSaveMetadata ==
  /\ dfPc = "meta"
  /\ \E ok \in BOOLEAN :
       IF ok
       THEN /\ dfFiles' = Append(dfFiles, "feed.json")
            /\ dfPc' = "items"
            /\ UNCHANGED <<dfPatched, dfWarcFile, dfErr, dfExit>>
       ELSE /\ DfFinally
            /\ DfRaise("OSError")
            /\ UNCHANGED dfFiles
  /\ UNCHANGED <<dfWarc, dfRss, dfRebound, dfEntries, dfItem, dfReturned,
                 dfInterrupted, notDfVars>>

\* line 1074: save_items_as_files writes the file of the next entry or
\* raises
DfSaveItem ==
  /\ dfPc = "items"
  /\ dfItem < dfEntries
  /\ \E ok \in BOOLEAN :
       IF ok
       THEN /\ dfFiles' = Append(dfFiles, "item")
            /\ dfItem' = dfItem + 1
            /\ UNCHANGED <<dfPatched, dfWarcFile, dfPc, dfErr, dfExit>>
       ELSE /\ DfFinally
            /\ DfRaise("OSError")
            /\ UNCHANGED <<dfFiles, dfItem>>
  /\ UNCHANGED <<dfWarc, dfRss, dfRebound, dfEntries, dfReturned,
                 dfInterrupted, notDfVars>>

\* lines 1075-1101: the finally runs and the stats are returned to main
DfReturn ==
  /\ dfPc = "items"
  /\ dfItem = dfEntries
  /\ DfFinally
  /\ dfReturned' = TRUE
  /\ dfPc' = "config"
  /\ UNCHANGED <<dfWarc, dfFiles, dfRss, dfRebound, dfEntries, dfItem, dfErr,
                 dfInterrupted, dfExit, notDfVars>>

\* rssdumper.py 154-165: main stores the outcome with update_config and
\* returns, status 0; an exception of update_config is caught nowhere and
\* ends the process with the traceback and status 1
DfFinish ==
  /\ dfPc = "config"
  /\ \E ok \in BOOLEAN :
       IF ok
       THEN /\ dfFiles' = Append(dfFiles, "config.json")
            /\ dfExit' = 0
            /\ UNCHANGED dfErr
       ELSE /\ dfErr' = "OSError"
            /\ dfExit' = 1
            /\ UNCHANGED dfFiles
  /\ dfPc' = "exited"
  /\ UNCHANGED <<dfWarc, dfRss, dfWarcFile, dfPatched, dfRebound, dfEntries,
                 dfItem, dfReturned, dfInterrupted, notDfVars>>

\* SIGINT during the call: signal_handler (rssdumper.py 64-66) calls
\* sys.exit(0), also after the call has returned and main stores the
\* outcome. SystemExit is no Exception: the except of line 1041 and the
\* one of main let it pass, the finally of line 1075 runs when the call is
\* inside its try, and the process ends with status 0
DfInterrupt ==
  /\ dfPc \in {"setup", "fetch", "record", "write_rss", "parse", "mkdirs",
               "patch", "meta", "items", "config"}
  /\ dfInterrupted' = TRUE
  /\ IF dfPc \in {"meta", "items"}
     THEN DfFinally
     ELSE UNCHANGED <<dfPatched, dfWarcFile>>
  /\ dfErr' = "SystemExit"
  /\ dfPc' = "exited"
  /\ dfExit' = 0
  /\ UNCHANGED <<dfWarc, dfFiles, dfRss, dfRebound, dfEntries, dfItem,
                 dfReturned, notDfVars>>

DfNext ==
  \/ DfSetupWarc
  \/ DfFetch
  \/ DfRecord
  \/ DfWriteRss
  \/ DfParse
  \/ DfMkdirs
  \/ DfPatch
  \/ DfSaveMetadata
  \/ DfSaveItem
  \/ DfReturn
  \/ DfFinish
  \/ DfInterrupt

SpecFeed == DfInit /\ [][DfNext]_vars

\* the positions of feed.rss in the files written
RssAt == {k \in 1..Len(dfFiles) : dfFiles[k] = "feed.rss"}

ExitZeroOnlyAfterReturn ==
  (dfPc = "exited" /\ dfExit = 0) => (dfReturned /\ ~dfInterrupted)

\* C29: on every exit path of download_rss_feed with capture enabled (the
\* return, a fetch or parse failure, no entries, a directory that cannot be
\* made, an exception while metadata or items are saved) the capture file
\* is closed and download_file is the original function again; without
\* capture download_file is never rebound.
CaptureReleasedOnExit ==
  /\ ~dfWarc => ~dfRebound
  /\ (dfWarc /\ dfPc = "exited" /\ ~dfInterrupted) =>
       (dfWarcFile # "open" /\ ~dfPatched)

(***************************************************************************)
(* The media of one entry: extract_and_download_images_in_html and         *)
(* extract_all_media as save_items_as_files calls them                     *)
(* (rssarchiver_core.py 238-412, 910-919), one mechanism at a time.        *)
(***************************************************************************)
\* the mechanisms, named by the source they record
Mechanisms ==
  {"html", "media:thumbnail", "media:content", "enclosure", "itunes:image",
   "googleplay:image", "rawvoice:poster"}

\* <img src="url">
ImgTag(url) ==
  <<"<", "i", "m", "g", " ", "s", "r", "c", "=", "\"">> \o url \o <<"\"", ">">>

\* the entries of the model: every mechanism refers to UrlPng or is absent,
\* the enclosure may refer to UrlMp3 instead; the entry has no podcast
\* chapters and no transcript
McEntries ==
  {e \in [Mechanisms -> {<<>>, UrlPng, UrlMp3}] :
     \A mech \in Mechanisms : e[mech] = UrlMp3 => mech = "enclosure"}

McInit ==
  /\ SanIdle
  /\ RunIdle
  /\ DlIdle
  /\ RwIdle
  /\ EmIdle
  /\ ItIdle
  /\ NmIdle
  /\ CtIdle
  /\ FtIdle
  /\ UpIdle
  /\ FvIdle
  /\ DfIdle
  /\ IaIdle
  /\ CfIdle
  /\ mcEntry \in McEntries
  /\ mcContentType \in {TypeImage, TypeAudio}
  /\ mcPc = "html"
  /\ mcHtmlImages = <<>>
  /\ mcDownloaded = [c \in Categories |-> <<>>]
  /\ mcFailed = FALSE

\* lines 910-912: the images of the HTML of the entry
McHtml ==
  /\ mcPc = "html"
  /\ \E ok \in BOOLEAN :
       /\ mcHtmlImages' =
            IF mcEntry["html"] = <<>> THEN <<>>
            ELSE HtmlImages(ImgTag(mcEntry["html"]), RwBaseUrl,
                            [k \in 1..1 |-> ok])
       /\ mcFailed' = (mcFailed \/ (mcEntry["html"] # <<>> /\ ~ok))
  /\ mcPc' = "media:thumbnail"
  /\ UNCHANGED <<mcEntry, mcContentType, mcDownloaded, notMcVars>>

\* one block of extract_all_media: the element of the mechanism, when the
\* entry has it, is downloaded into the subfolder of its category and
\* recorded when download_file returned a path
McMechanism(mech, next, category) ==
  /\ mcPc = mech
  /\ \E ok \in BOOLEAN :
       /\ mcDownloaded' = DownloadInto(mcDownloaded, category, mcEntry[mech],
                                       ok, mech)
       /\ mcFailed' = (mcFailed \/ (mcEntry[mech] # <<>> /\ ~ok))
  /\ mcPc' = next
  /\ UNCHANGED <<mcEntry, mcContentType, mcHtmlImages, notMcVars>>

\* lines 249-260
McThumbnail == McMechanism("media:thumbnail", "media:content", "images")

\* lines 263-296
McContent ==
  McMechanism("media:content", "enclosure",
              media_category(mcContentType, <<>>))

\* lines 299-330, for an enclosure of type audio/mpeg
McEnclosure ==
  McMechanism("enclosure", "itunes:image", enclosure_category(TypeAudio))

\* lines 332-346
McItunesImage == McMechanism("itunes:image", "googleplay:image", "images")

\* lines 349-363
McGoogleplayImage ==
  McMechanism("googleplay:image", "rawvoice:poster", "images")

\* lines 401-410; extract_all_media returns
McPoster == McMechanism("rawvoice:poster", "append", "images")

\* lines 914-919: the images of the HTML are appended to all_media['images']
McAppendHtml ==
  /\ mcPc = "append"
  /\ mcDownloaded' = [mcDownloaded EXCEPT !["images"] = @ \o mcHtmlImages]
  /\ mcPc' = "done"
  /\ UNCHANGED <<mcEntry, mcContentType, mcHtmlImages, mcFailed, notMcVars>>

McNext ==
  \/ McHtml
  \/ McThumbnail
  \/ McContent
  \/ McEnclosure
  \/ McItunesImage
  \/ McGoogleplayImage
  \/ McPoster
  \/ McAppendHtml

SpecMechanisms == McInit /\ [][McNext]_vars

\* the records of downloaded_media: a category and an index in its bucket
McRecords ==
  UNION {{<<c, k>> : k \in 1..Len(mcDownloaded[c])} : c \in Categories}

\* C25: a URL that k mechanisms of one entry refer to gives k records in the
\* entry's downloaded_media when its downloads succeed, each with that
\* original_url: nothing is deduplicated by URL, and the element of each
\* mechanism is recorded in exactly one bucket.
OneRecordPerMechanism ==
  (mcPc = "done" /\ ~mcFailed) =>
    /\ \A url \in {UrlPng, UrlMp3} :
         Cardinality({r \in McRecords :
                        mcDownloaded[r[1]][r[2]].original_url = url})
           = Cardinality({mech \in Mechanisms : mcEntry[mech] = url})
    /\ \A mech \in Mechanisms :
         Cardinality({r \in McRecords :
                        mcDownloaded[r[1]][r[2]].source = mech})
           = IF mcEntry[mech] = <<>> THEN 0 ELSE 1

\* the URL of every mechanism of the entry is the same one and all the
\* downloads succeeded
EveryMechanismSameUrl ==
  /\ mcPc = "done"
  /\ ~mcFailed
  /\ \A mech \in Mechanisms : mcEntry[mech] = UrlPng
  /\ Cardinality(McRecords) = Cardinality(Mechanisms)


(***************************************************************************)
(* IAUploader._upload_to_ia, _filter_existing_files and                    *)
(* _wait_for_item_creation (rssuploader.py 397-451).                       *)
(***************************************************************************)

\* the default of the parameter max_tries (line 442); _upload_to_ia calls
\* the function without it (line 424)
max_tries == 30

\* the remote names of the files of the dump, and a file of the item that
\* the archive made itself
IaNames == {"x-feed.json", "x-feed.rss"}
IaRemoteNames == IaNames \cup {"rss-x_meta.xml"}
IaPaths == {"/d/feed", "/d/tmp/feed"}

\* the dictionaries _prepare_files can hand over
IaFileDicts == UNION {[names -> IaPaths] : names \in SUBSET IaNames}

\* the items get_item can find: an item that does not exist has no files
IaItems ==
  {[exists |-> FALSE, files |-> {}]} \cup
  {[exists |-> TRUE, files |-> present] : present \in SUBSET IaRemoteNames}

\* a mutant: nothing is filtered out
filter_nothing(item, files) == files

\* _filter_existing_files (426-440): all of files when the item does not
\* exist, else the entries whose remote name is not a name of item.files
filter_existing_files(item, files) ==
  IF ~item.exists THEN files
  ELSE LET existing_files == item.files
       IN  [remote_name \in {n \in DOMAIN files : n \notin existing_files} |->
              files[remote_name]]

\* a mutant: the loop goes on while tries is not negative
KeepPollingOneMore(exists, tries) == ~exists /\ tries >= 0

\* the condition of the while of line 447
KeepPolling(exists, tries) == ~exists /\ tries > 0

IaInit ==
  /\ SanIdle
  /\ RunIdle
  /\ DlIdle
  /\ RwIdle
  /\ EmIdle
  /\ ItIdle
  /\ NmIdle
  /\ CtIdle
  /\ FtIdle
  /\ UpIdle
  /\ FvIdle
  /\ DfIdle
  /\ McIdle
  /\ CfIdle
  /\ iaFiles \in IaFileDicts
  /\ iaRemote \in IaItems
  /\ iaItem = [exists |-> FALSE, files |-> {}]
  /\ iaToUpload = EmptyMap
  /\ iaUploads = <<>>
  /\ iaPc = "get_item"
  /\ iaTries = 0
  /\ iaSeen = <<>>
  /\ iaFailedIn = "none"

\* a call raises: nothing in _upload_to_ia or _wait_for_item_creation
\* catches it
IaRaise(call) ==
  /\ iaPc' = "raised"
  /\ iaFailedIn' = call

\* line 405: get_item asks archive.org for the item, or raises
IaGetItem ==
  /\ iaPc = "get_item"
  /\ \/ /\ iaItem' = iaRemote
        /\ iaPc' = "filter"
        /\ UNCHANGED iaFailedIn
     \/ /\ IaRaise("get_item")
        /\ UNCHANGED iaItem
  /\ UNCHANGED <<iaFiles, iaRemote, iaToUpload, iaUploads, iaTries, iaSeen, notIaVars>>

\* line 406
IaFilter ==
  /\ iaPc = "filter"
  /\ iaToUpload' = filter_existing_files(iaItem, iaFiles)
  /\ iaPc' = "upload"
  /\ UNCHANGED <<iaFiles, iaRemote, iaItem, iaUploads, iaTries, iaSeen, iaFailedIn, notIaVars>>

\* lines 411-419: item.upload with the files that remain; the files are at
\* the archive when the call returns, the item exists when the archive has
\* finished its own tasks
IaUpload ==
  /\ iaPc = "upload"
  /\ DOMAIN iaToUpload # {}
  /\ iaUploads' = Append(iaUploads, DOMAIN iaToUpload)
  /\ \/ /\ iaRemote' = [iaRemote EXCEPT !.files = @ \cup DOMAIN iaToUpload]
        /\ iaPc' = "wait"
        /\ UNCHANGED iaFailedIn
     \/ /\ IaRaise("upload")
        /\ UNCHANGED iaRemote
  /\ UNCHANGED <<iaFiles, iaItem, iaToUpload, iaTries, iaSeen, notIaVars>>

\* line 411: nothing remains, upload is not called
IaNoUpload ==
  /\ iaPc = "upload"
  /\ DOMAIN iaToUpload = {}
  /\ iaPc' = "wait"
  /\ UNCHANGED <<iaFiles, iaRemote, iaItem, iaToUpload, iaUploads, iaTries, iaSeen, iaFailedIn, notIaVars>>

\* the archive finishes creating the item; it may never do so
IaAppear ==
  /\ iaPc \in {"wait", "loop"}
  /\ ~iaRemote.exists
  /\ iaRemote.files # {}
  /\ iaRemote' = [iaRemote EXCEPT !.exists = TRUE]
  /\ UNCHANGED <<iaFiles, iaItem, iaToUpload, iaUploads, iaPc, iaTries, iaSeen, iaFailedIn, notIaVars>>

\* lines 444-445: tries = max_tries and the first get_item
IaWaitStart ==
  /\ iaPc = "wait"
  /\ \/ /\ iaTries' = max_tries
        /\ iaSeen' = <<iaRemote.exists>>
        /\ iaPc' = "loop"
        /\ UNCHANGED iaFailedIn
     \/ /\ IaRaise("wait_get_item")
        /\ iaTries' = max_tries
        /\ UNCHANGED iaSeen
  /\ UNCHANGED <<iaFiles, iaRemote, iaItem, iaToUpload, iaUploads, notIaVars>>

\* lines 447-451: one pass of the loop: sleep, get_item, tries -= 1
IaPoll ==
  /\ iaPc = "loop"
  /\ KeepPolling(iaSeen[Len(iaSeen)], iaTries)
  /\ \/ /\ iaSeen' = Append(iaSeen, iaRemote.exists)
        /\ iaTries' = iaTries - 1
        /\ UNCHANGED <<iaPc, iaFailedIn>>
     \/ /\ IaRaise("poll_get_item")
        /\ UNCHANGED <<iaSeen, iaTries>>
  /\ UNCHANGED <<iaFiles, iaRemote, iaItem, iaToUpload, iaUploads, notIaVars>>

\* line 447: the condition is false, the function returns None
IaReturn ==
  /\ iaPc = "loop"
  /\ ~KeepPolling(iaSeen[Len(iaSeen)], iaTries)
  /\ iaPc' = "returned"
  /\ UNCHANGED <<iaFiles, iaRemote, iaItem, iaToUpload, iaUploads, iaTries, iaSeen, iaFailedIn, notIaVars>>

IaNext ==
  \/ IaGetItem
  \/ IaFilter
  \/ IaUpload
  \/ IaNoUpload
  \/ IaAppear
  \/ IaWaitStart
  \/ IaPoll
  \/ IaReturn

SpecUploadToIa == IaInit /\ [][IaNext]_vars

\* the uploader is one thread: a step it can take, it takes; the archive
\* owes nothing
SpecUploadToIaFair ==
  /\ IaInit
  /\ [][IaNext]_vars
  /\ WF_vars(IaGetItem \/ IaFilter \/ IaUpload \/ IaNoUpload \/ IaWaitStart \/ IaPoll \/ IaReturn)

\* line 406 has run
IaFiltered == iaPc \in {"upload", "wait", "loop", "returned"} \/ iaFailedIn \in {"upload", "wait_get_item", "poll_get_item"}

\* C26: files_to_upload is exactly the entries of files whose remote name is
\* not a name of a file of the item that get_item found (all of files when
\* the item does not exist); upload is called at most once, with at least
\* one file and with no file the item already had
UploadSkipsRemoteFiles ==
  /\ IaFiltered =>
       /\ DOMAIN iaToUpload =
            {n \in DOMAIN iaFiles : ~(iaItem.exists /\ n \in iaItem.files)}
       /\ \A n \in DOMAIN iaToUpload : iaToUpload[n] = iaFiles[n]
  /\ Len(iaUploads) <= 1
  /\ \A i \in 1..Len(iaUploads) :
       /\ iaUploads[i] # {}
       /\ iaUploads[i] \cap iaItem.files = {}

\* an upload to an item that had one of the two files: the other one only
\* is sent
UploadedTheMissingFile ==
  /\ iaPc = "returned"
  /\ iaItem.exists
  /\ DOMAIN iaFiles = IaNames
  /\ Len(iaUploads) = 1
  /\ iaUploads[1] = {"x-feed.rss"}

\* the polls after the first get_item of _wait_for_item_creation
IaPolls == Len(iaSeen) - 1

IaWaitOver == iaPc \in {"returned", "raised"}

\* C30: _wait_for_item_creation ends; it polls at most max_tries times after
\* its first get_item, no poll follows a get_item that found the item, it
\* returns when the item was found or max_tries polls were made, and nothing
\* raises but a get_item that failed
WaitForItemTerminates ==
  /\ [](/\ iaSeen # <<>> => IaPolls <= max_tries
        /\ \A i \in 1..(Len(iaSeen) - 1) : ~iaSeen[i]
        /\ (iaPc = "returned") => (iaSeen[Len(iaSeen)] \/ IaPolls = max_tries)
        /\ (iaPc = "raised") => iaFailedIn \in {"get_item", "upload", "wait_get_item", "poll_get_item"})
  /\ <>IaWaitOver

\* the item never came to exist: max_tries polls, then a normal return
WaitedInVain ==
  /\ iaPc = "returned"
  /\ IaPolls = max_tries
  /\ \A i \in 1..Len(iaSeen) : ~iaSeen[i]


(***************************************************************************)
(* update_config and get_config (utils/config.py 8-25).  main() calls      *)
(* update_config with a dict of string keys whose values are strings and   *)
(* integers (rssdumper.py 130-160).                                        *)
(***************************************************************************)
CfStr(text) == [t |-> "str", s |-> text, n |-> 0]
CfInt(number) == [t |-> "int", s |-> <<>>, n |-> number]

\* json: a string between quotes, " and \ escaped with \
RECURSIVE JsonEscape(_)
JsonEscape(text) ==
  IF text = <<>> THEN <<>>
  ELSE (IF Head(text) \in {"\"", "BACKSLASH"}
        THEN <<"BACKSLASH", Head(text)>>
        ELSE <<Head(text)>>) \o JsonEscape(Tail(text))

RECURSIVE JsonUnescape(_)
JsonUnescape(text) ==
  IF text = <<>> THEN <<>>
  ELSE IF Head(text) = "BACKSLASH" /\ Len(text) >= 2
       THEN <<text[2]>> \o JsonUnescape(Tail(Tail(text)))
       ELSE <<Head(text)>> \o JsonUnescape(Tail(text))

\* int(digits)
RECURSIVE ParseInt(_)
ParseInt(digits) ==
  IF digits = <<>> THEN 0
  ELSE 10 * ParseInt(SubSeq(digits, 1, Len(digits) - 1))
       + (Ord(digits[Len(digits)]) - 48)

\* json.dump of a value (line 16): a string is written between quotes, an
\* integer as its digits
json_dump_value(value) ==
  IF value.t = "str" THEN <<"\"">> \o JsonEscape(value.s) \o <<"\"">>
  ELSE Decimal(value.n)

\* json.load of a value (line 24)
json_load_value(text) ==
  IF Head(text) = "\""
  THEN CfStr(JsonUnescape(SubSeq(text, 2, Len(text) - 1)))
  ELSE CfInt(ParseInt(text))

\* json.dump and json.load of an object: key by key
json_dump(config) == [k \in DOMAIN config |-> json_dump_value(config[k])]
json_load(data) == [k \in DOMAIN data |-> json_load_value(data[k])]

\* the keys and values of the model: two of the keys main() stores; a
\* string, a string with a quote and a backslash, the string "3" and the
\* integer 3
CfKeys == {"status", "items_downloaded"}
CfValues ==
  {CfStr(<<"o", "k">>), CfStr(<<"a", "\"", "BACKSLASH">>), CfStr(<<"3">>),
   CfInt(3)}
CfConfigs == UNION {[keys -> CfValues] : keys \in SUBSET CfKeys}

\* a mutant: the stored value of a key wins over the given one
merge_stored_wins(_config, config) ==
  [k \in DOMAIN _config \cup DOMAIN config |->
     IF k \in DOMAIN _config THEN _config[k] ELSE config[k]]

\* line 11: {**_config, **config}
merge_config(_config, config) ==
  [k \in DOMAIN _config \cup DOMAIN config |->
     IF k \in DOMAIN config THEN config[k] ELSE _config[k]]

\* get_config (19-25): {} when the file does not exist, else json.load of it;
\* a file that is not JSON raises JSONDecodeError
get_config(file) ==
  IF ~file.exists THEN [raised |-> FALSE, config |-> EmptyMap]
  ELSE IF ~file.valid THEN [raised |-> TRUE, config |-> EmptyMap]
  ELSE [raised |-> FALSE, config |-> json_load(file.data)]

CfInit ==
  /\ SanIdle
  /\ RunIdle
  /\ DlIdle
  /\ RwIdle
  /\ EmIdle
  /\ ItIdle
  /\ NmIdle
  /\ CtIdle
  /\ FtIdle
  /\ UpIdle
  /\ FvIdle
  /\ DfIdle
  /\ McIdle
  /\ IaIdle
  /\ cfFile \in {NoFile} \cup
       {[exists |-> TRUE, valid |-> TRUE, data |-> json_dump(c)] : c \in CfConfigs}
  /\ cfStart = cfFile
  /\ cfArg \in CfConfigs
  /\ cfOld = EmptyMap
  /\ cfNew = EmptyMap
  /\ cfPc = "get"
  /\ cfCalls = 0
  /\ cfAfterFirst = NoFile
  /\ cfRead = EmptyMap
  /\ cfError = "none"

\* line 10
CfGet ==
  /\ cfPc = "get"
  /\ IF get_config(cfFile).raised
     THEN /\ cfPc' = "raised"
          /\ cfError' = "JSONDecodeError"
          /\ UNCHANGED cfOld
     ELSE /\ cfOld' = get_config(cfFile).config
          /\ cfPc' = "merge"
          /\ UNCHANGED cfError
  /\ UNCHANGED <<cfFile, cfStart, cfArg, cfNew, cfCalls, cfAfterFirst, cfRead, notCfVars>>

\* line 11
CfMerge ==
  /\ cfPc = "merge"
  /\ cfNew' = merge_config(cfOld, cfArg)
  /\ cfPc' = "makedirs"
  /\ UNCHANGED <<cfFile, cfStart, cfArg, cfOld, cfCalls, cfAfterFirst, cfRead, cfError, notCfVars>>

\* line 14: os.makedirs(exist_ok=True), or OSError
CfMakedirs ==
  /\ cfPc = "makedirs"
  /\ \/ /\ cfPc' = "open"
        /\ UNCHANGED cfError
     \/ /\ cfPc' = "raised"
        /\ cfError' = "OSError"
  /\ UNCHANGED <<cfFile, cfStart, cfArg, cfOld, cfNew, cfCalls, cfAfterFirst, cfRead, notCfVars>>

\* line 15: open(path, 'w') makes the file empty, or raises OSError and
\* leaves it
CfOpen ==
  /\ cfPc = "open"
  /\ \/ /\ cfFile' = [exists |-> TRUE, valid |-> FALSE, data |-> EmptyMap]
        /\ cfPc' = "dump"
        /\ UNCHANGED cfError
     \/ /\ cfPc' = "raised"
        /\ cfError' = "OSError"
        /\ UNCHANGED cfFile
  /\ UNCHANGED <<cfStart, cfArg, cfOld, cfNew, cfCalls, cfAfterFirst, cfRead, notCfVars>>

\* line 16: json.dump writes the object and the with closes the file, or a
\* write fails and the file stays cut short
CfDump ==
  /\ cfPc = "dump"
  /\ \/ /\ cfFile' = [exists |-> TRUE, valid |-> TRUE, data |-> json_dump(cfNew)]
        /\ cfCalls' = cfCalls + 1
        /\ cfAfterFirst' = IF cfCalls = 0 THEN cfFile' ELSE cfAfterFirst
        /\ cfPc' = "returned"
        /\ UNCHANGED cfError
     \/ /\ cfPc' = "raised"
        /\ cfError' = "OSError"
        /\ UNCHANGED <<cfFile, cfCalls, cfAfterFirst>>
  /\ UNCHANGED <<cfStart, cfArg, cfOld, cfNew, cfRead, notCfVars>>

\* update_config is called again with the same dict
CfAgain ==
  /\ cfPc = "returned"
  /\ cfCalls = 1
  /\ cfPc' = "get"
  /\ UNCHANGED <<cfFile, cfStart, cfArg, cfOld, cfNew, cfCalls, cfAfterFirst, cfRead, cfError, notCfVars>>

\* get_config after update_config returned or raised
CfRead ==
  /\ cfPc \in {"returned", "raised"}
  /\ IF get_config(cfFile).raised
     THEN /\ cfPc' = "read_raised"
          /\ cfError' = "JSONDecodeError"
          /\ UNCHANGED cfRead
     ELSE /\ cfRead' = get_config(cfFile).config
          /\ cfPc' = IF cfPc = "returned" THEN "read" ELSE "read_after_raise"
          /\ UNCHANGED cfError
  /\ UNCHANGED <<cfFile, cfStart, cfArg, cfOld, cfNew, cfCalls, cfAfterFirst, notCfVars>>

CfNext ==
  \/ CfGet
  \/ CfMerge
  \/ CfMakedirs
  \/ CfOpen
  \/ CfDump
  \/ CfAgain
  \/ CfRead

SpecConfig == CfInit /\ [][CfNext]_vars

\* the config stored before the first call
CfStored == IF cfStart.exists THEN json_load(cfStart.data) ELSE EmptyMap

\* C27: after update_config(dump_dir, c) returned, get_config gives c's
\* value for every key of c and the value stored before for every other
\* stored key, and no other key; get_config gives {} when there is no file;
\* the file after the second call with the same c is the file after the
\* first
UpdateConfigChangesGivenKeysOnly ==
  /\ cfPc = "read" =>
       /\ DOMAIN cfRead = DOMAIN CfStored \cup DOMAIN cfArg
       /\ \A k \in DOMAIN cfArg : cfRead[k] = cfArg[k]
       /\ \A k \in DOMAIN CfStored \ DOMAIN cfArg : cfRead[k] = CfStored[k]
  /\ (cfPc = "merge" /\ ~cfFile.exists) => cfOld = EmptyMap
  /\ cfCalls = 2 => cfFile = cfAfterFirst

\* a key is replaced, a key is kept, and the second call has returned
ConfigUpdatedTwice ==
  /\ cfPc = "read"
  /\ cfCalls = 2
  /\ DOMAIN CfStored = CfKeys
  /\ DOMAIN cfArg = {"status"}
  /\ cfArg["status"] = CfStr(<<"a", "\"", "BACKSLASH">>)
  /\ CfStored["status"] = CfStr(<<"3">>)
  /\ CfStored["items_downloaded"] = CfInt(3)

====
